---- MODULE Spec2Model ----
(***************************************************************************)
(* Model of eb_bars: the BarPlot description (src/lib.rs) and the SVG      *)
(* generator that renders it (src/svg.rs, src/svg/tag.rs).                 *)
(*                                                                         *)
(* Numbers.  An f64 is modelled as an exact fraction <<n, d>> in lowest    *)
(* terms with d > 0; the non-finite values are <<1, 0>> (+inf),            *)
(* <<-1, 0>> (-inf) and <<0, 0>> (NaN).  f64::MAX and f64::MIN, the seeds  *)
(* of the statistics pass, are modelled as +inf and -inf.  Rounding is not *)
(* modelled: the inputs are small integers and percentages.                *)
(*                                                                         *)
(* Options.  Option<T> is a sequence: <<>> is None and <<x>> is Some(x).   *)
(* Indices kept in nodes and overrides are zero based, as in the source.   *)
(***************************************************************************)
EXTENDS Integers, Sequences, FiniteSets, TLC

VARIABLES bp, ret

vars == <<bp, ret>>

-----------------------------------------------------------------------------
(* Bounds of the model.                                                    *)

MaxK == 2
MaxBars == 4
MaxOverrides == 2

-----------------------------------------------------------------------------
(* Program constants.                                                      *)

DEFAULT_BAR_COLOR == "rgb(112, 153, 182)"
DEFAULT_BASE_COLOR == "rgb(197, 197, 197)"
DEFAULT_BIN_GAP == 10
DEFAULT_BAR_GAP == 0
DEFAULT_TICK_LENGTH == 10
DEFAULT_FONT_SIZE == 100
DEFAULT_TEXT_SIDE_OFFSET == 35
DEFAULT_LEGEND_POSITION == <<90, 20>>

-----------------------------------------------------------------------------
(* f64 arithmetic on fractions.                                            *)

AbsInt(i) == IF i < 0 THEN -i ELSE i

SignInt(i) == IF i < 0 THEN -1 ELSE IF i > 0 THEN 1 ELSE 0

RECURSIVE Gcd(_, _)
Gcd(a, b) == IF b = 0 THEN a ELSE Gcd(b, a % b)

Frac(n, d) ==
    IF d = 0 THEN <<SignInt(n), 0>>
    ELSE LET g == Gcd(AbsInt(n), AbsInt(d))
             s == IF d < 0 THEN -1 ELSE 1
         IN  <<(s * n) \div g, (s * d) \div g>>

F(i) == <<i, 1>>

NaN == <<0, 0>>
PosInf == <<1, 0>>
NegInf == <<-1, 0>>

IsNaN(a) == a = NaN
IsFinite(a) == a[2] # 0

FNeg(a) == <<-a[1], a[2]>>

FAdd(a, b) ==
    IF IsNaN(a) \/ IsNaN(b) THEN NaN
    ELSE IF ~IsFinite(a) /\ ~IsFinite(b) THEN (IF a = b THEN a ELSE NaN)
    ELSE IF ~IsFinite(a) THEN a
    ELSE IF ~IsFinite(b) THEN b
    ELSE Frac(a[1] * b[2] + b[1] * a[2], a[2] * b[2])

FSub(a, b) == FAdd(a, FNeg(b))

FMul(a, b) ==
    IF IsNaN(a) \/ IsNaN(b) THEN NaN
    ELSE IF ~IsFinite(a) \/ ~IsFinite(b)
         THEN <<SignInt(a[1]) * SignInt(b[1]), 0>>
    ELSE Frac(a[1] * b[1], a[2] * b[2])

FInv(a) ==
    IF IsNaN(a) THEN NaN
    ELSE IF ~IsFinite(a) THEN F(0)
    ELSE IF a[1] = 0 THEN PosInf
    ELSE Frac(a[2], a[1])

FDiv(a, b) == FMul(a, FInv(b))

FAbs(a) == <<AbsInt(a[1]), a[2]>>

FLt(a, b) ==
    IF IsNaN(a) \/ IsNaN(b) THEN FALSE
    ELSE IF ~IsFinite(a) THEN a = NegInf /\ b # NegInf
    ELSE IF ~IsFinite(b) THEN b = PosInf
    ELSE a[1] * b[2] < b[1] * a[2]

FEq(a, b) == ~IsNaN(a) /\ ~IsNaN(b) /\ a = b

FLe(a, b) == FLt(a, b) \/ FEq(a, b)

FMax(a, b) == IF IsNaN(a) THEN b ELSE IF IsNaN(b) THEN a ELSE IF FLt(a, b) THEN b ELSE a

FMin(a, b) == IF IsNaN(a) THEN b ELSE IF IsNaN(b) THEN a ELSE IF FLt(b, a) THEN b ELSE a

RECURSIVE SqrtFrom(_, _)
SqrtFrom(n, x) ==
    LET y == (x + n \div x) \div 2 IN IF y >= x THEN x ELSE SqrtFrom(n, y)

(* f64::sqrt on the canvas areas of the model, which are perfect squares.  *)
FSqrt(a) == IF a[1] = 0 THEN F(0) ELSE F(SqrtFrom(a[1], a[1]))

-----------------------------------------------------------------------------
(* Options and sequences.                                                  *)

None == <<>>
Some(x) == <<x>>
IsSome(o) == o # <<>>
UnwrapOr(o, dflt) == IF o = <<>> THEN dflt ELSE o[1]

RECURSIVE Concat(_)
Concat(ss) == IF ss = <<>> THEN <<>> ELSE Head(ss) \o Concat(Tail(ss))

RECURSIVE SumSeq(_)
SumSeq(s) == IF s = <<>> THEN 0 ELSE Head(s) + SumSeq(Tail(s))

-----------------------------------------------------------------------------
(* src/lib.rs: the plot description.                                       *)

Uniform(color) == [kind |-> "Uniform", colors |-> <<color>>, matrix |-> <<>>]
Threshold(min, low, high, max) ==
    [kind |-> "Threshold", colors |-> <<min, low, high, max>>, matrix |-> <<>>]
Category(colors) == [kind |-> "Category", colors |-> colors, matrix |-> <<>>]
Indexed(matrix) == [kind |-> "Indexed", colors |-> <<>>, matrix |-> matrix]

BarColorsDefault == Uniform(DEFAULT_BAR_COLOR)

PlotTextDefault ==
    [left |-> None, left_offset |-> None, right |-> None, right_offset |-> None,
     top |-> None, top_offset |-> None, bottom |-> None, bottom_offset |-> None]

PlotLegendDefault == [categories |-> None, position |-> None]

BarPlotNew ==
    [values |-> <<>>,
     bin_markers |-> None,
     scale_range |-> None,
     size |-> None,
     plot_window_scale |-> None,
     x_axis_tick_length |-> None,
     y_axis_tick_length |-> None,
     negative_bars_go_down |-> FALSE,
     show_window_border |-> FALSE,
     show_plot_border |-> FALSE,
     show_horizontal_lines |-> FALSE,
     show_vertical_lines |-> FALSE,
     background_color |-> None,
     line_color |-> DEFAULT_BASE_COLOR,
     text_color |-> DEFAULT_BASE_COLOR,
     tick_color |-> DEFAULT_BASE_COLOR,
     bin_gap |-> DEFAULT_BIN_GAP,
     bar_gap |-> DEFAULT_BAR_GAP,
     plot_text |-> PlotTextDefault,
     font_size |-> DEFAULT_FONT_SIZE,
     bar_color_variant |-> BarColorsDefault,
     bar_colors_override |-> <<>>,
     bin_marker_position |-> "Middle",
     legend |-> PlotLegendDefault,
     custom_lines |-> <<>>]

(* The value an operation hands back: nothing, a panic, or the document.   *)
Unit == [kind |-> "unit", msg |-> "", nodes |-> <<>>, size |-> <<0, 0>>]
Panic(msg) == [kind |-> "panic", msg |-> msg, nodes |-> <<>>, size |-> <<0, 0>>]
Svg(nodes, size) == [kind |-> "svg", msg |-> "", nodes |-> nodes, size |-> size]

-----------------------------------------------------------------------------
(* src/svg/tag.rs: the primitives.  num holds the numeric attributes in    *)
(* the order of the function's parameters.  part, cat and idx record which *)
(* generator emitted the primitive and for which category and position;    *)
(* they are not part of the document.                                      *)

El(tag, num, color, anchor, text) ==
    [tag |-> tag, num |-> num, color |-> color, anchor |-> anchor, text |-> text,
     part |-> "", cat |-> -1, idx |-> -1]

TagText(x, y, color, font_size, anchor, text) ==
    El("text", <<x, y, font_size>>, color, anchor, text)

TagTextTopDown(x, y, color, font_size, anchor, text) ==
    El("text_top_down", <<x, y, font_size>>, color, anchor, text)

TagTextBottomUp(x, y, color, font_size, anchor, text) ==
    El("text_bottom_up", <<x, y, font_size>>, color, anchor, text)

TagRect(x, y, width, height, opacity, color) ==
    El("rect", <<x, y, width, height, opacity>>, color, "", "")

TagLine(x1, x2, y1, y2, color, width) ==
    El("line", <<x1, x2, y1, y2, width>>, color, "", "")

Mark(el, part, cat, idx) == [el EXCEPT !.part = part, !.cat = cat, !.idx = idx]

-----------------------------------------------------------------------------
(* src/svg.rs: SvgGenerator.  A generator g is a record of the struct's    *)
(* fields, and panic: the message of the panic that ended the render, if    *)
(* any.  An operation on a generator that has panicked does nothing.       *)

DEFAULT_SVG_SIZE == <<1600, 1000>>

RECURSIVE FoldMax(_, _)
FoldMax(s, acc) == IF s = <<>> THEN acc ELSE FoldMax(Tail(s), FMax(F(Head(s)), acc))

RECURSIVE FoldMin(_, _)
FoldMin(s, acc) == IF s = <<>> THEN acc ELSE FoldMin(Tail(s), FMin(F(Head(s)), acc))

(* nodes left over from the document returned before.                     *)
CarriedNodes == ret.nodes

(* nodes of a generator just built.                                        *)
NewNodes == <<>>

(* mean = sum / bar_count                                                  *)
Mean(all) == FDiv(F(SumSeq(all)), F(Len(all)))

SvgGeneratorNew(d) ==
    [nodes |-> NewNodes,
     min |-> FoldMin(Concat(d.values), PosInf),
     max |-> FoldMax(Concat(d.values), NegInf),
     mean |-> Mean(Concat(d.values)),
     svg_window |-> UnwrapOr(d.size, DEFAULT_SVG_SIZE),
     plot_window |-> <<F(UnwrapOr(d.size, DEFAULT_SVG_SIZE)[1]), F(0),
                       F(UnwrapOr(d.size, DEFAULT_SVG_SIZE)[1]), F(0)>>,
     scale_range |-> None,
     line_color |-> d.line_color,
     tick_color |-> d.tick_color,
     text_color |-> d.text_color,
     bin_margin |-> d.bin_gap,
     bar_margin |-> d.bar_gap,
     font_size |-> d.font_size,
     values |-> d.values,
     enum_bar_colors |-> d.bar_color_variant,
     bar_colors_override |-> d.bar_colors_override,
     panic |-> None]

Push(g, node) == [g EXCEPT !.nodes = Append(@, node)]

Fail(g, msg) == [g EXCEPT !.panic = Some(msg)]

Ok(g) == g.panic = None

GetSvgWidth(g) == F(g.svg_window[1])

GetSvgHeight(g) == F(g.svg_window[2])

GetSvgWindow(g) == <<F(0), F(g.svg_window[1]), F(0), F(g.svg_window[2])>>

GetPlotWindow(g) ==
    <<g.plot_window[2], FAdd(g.plot_window[2], g.plot_window[1]),
      g.plot_window[4], FAdd(g.plot_window[3], g.plot_window[4])>>

GetFontSize(g) ==
    FMul(FDiv(FSqrt(FMul(F(g.svg_window[1]), F(g.svg_window[2]))), F(50)),
         FDiv(F(g.font_size), F(100)))

GetBaseLineWidth(g) ==
    FDiv(FSqrt(FMul(F(g.svg_window[1]), F(g.svg_window[2]))), F(100))

-----------------------------------------------------------------------------
(* Colour of a bar.                                                        *)

(* OverrideColor with the last matching override taken.                    *)
RECURSIVE OverrideColorLast(_, _, _)
OverrideColorLast(ovs, category_index, bar_index) ==
    IF ovs = <<>> THEN None
    ELSE IF category_index = ovs[Len(ovs)][1] /\ bar_index = ovs[Len(ovs)][2]
         THEN Some(ovs[Len(ovs)][3])
    ELSE OverrideColorLast(SubSeq(ovs, 1, Len(ovs) - 1), category_index, bar_index)

(* OverrideColor with the bar index of the override ignored.                *)
RECURSIVE OverrideColorByCategory(_, _, _)
OverrideColorByCategory(ovs, category_index, bar_index) ==
    IF ovs = <<>> THEN None
    ELSE IF category_index = Head(ovs)[1]
         THEN Some(Head(ovs)[3])
    ELSE OverrideColorByCategory(Tail(ovs), category_index, bar_index)

(* The scan of bar_colors_override: the colour of the first entry that     *)
(* names (category_index, bar_index), or None.                             *)
RECURSIVE OverrideColor(_, _, _)
OverrideColor(ovs, category_index, bar_index) ==
    IF ovs = <<>> THEN None
    ELSE IF category_index = Head(ovs)[1] /\ bar_index = Head(ovs)[2]
         THEN Some(Head(ovs)[3])
    ELSE OverrideColor(Tail(ovs), category_index, bar_index)

(* ThresholdColor with the mean compared strictly.                        *)
ThresholdColorStrictMean(g, colors, bar_value) ==
    IF FEq(bar_value, g.max) THEN colors[4]
    ELSE IF FEq(bar_value, g.min) THEN colors[1]
    ELSE IF FLt(g.mean, bar_value) THEN colors[3]
    ELSE colors[2]

ThresholdColor(g, colors, bar_value) ==
    IF FEq(bar_value, g.max) THEN colors[4]
    ELSE IF FEq(bar_value, g.min) THEN colors[1]
    ELSE IF FLe(g.mean, bar_value) THEN colors[3]
    ELSE colors[2]

LayoutColor(g, category_index, bar_index, bar_value) ==
    CASE g.enum_bar_colors.kind = "Category" ->
            g.enum_bar_colors.colors[category_index + 1]
      [] g.enum_bar_colors.kind = "Indexed" ->
            g.enum_bar_colors.matrix[category_index + 1][bar_index + 1]
      [] g.enum_bar_colors.kind = "Threshold" ->
            ThresholdColor(g, g.enum_bar_colors.colors, bar_value)
      [] g.enum_bar_colors.kind = "Uniform" ->
            g.enum_bar_colors.colors[1]

(* arr[category_index] and arr[category_index][bar_index] index inside    *)
(* their vectors; outside, the indexing panics.                            *)
LayoutIndexInBounds(g, category_index, bar_index) ==
    CASE g.enum_bar_colors.kind = "Category" ->
            category_index < Len(g.enum_bar_colors.colors)
      [] g.enum_bar_colors.kind = "Indexed" ->
            /\ category_index < Len(g.enum_bar_colors.matrix)
            /\ bar_index < Len(g.enum_bar_colors.matrix[category_index + 1])
      [] OTHER -> TRUE

(* get_bar_color returns: an override names the bar, or the lookup of the   *)
(* layout is inside its vectors.                                            *)
GetBarColorReturns(g, category_index, bar_index) ==
    \/ IsSome(OverrideColor(g.bar_colors_override, category_index, bar_index))
    \/ LayoutIndexInBounds(g, category_index, bar_index)

UseOverride(o, g, category_index, bar_index, bar_value) ==
    IF IsSome(o) THEN o[1] ELSE LayoutColor(g, category_index, bar_index, bar_value)

GetBarColor(g, category_index, bar_index, bar_value) ==
    UseOverride(OverrideColor(g.bar_colors_override, category_index, bar_index),
                g, category_index, bar_index, bar_value)

SvgSetLineColor(g, color) == [g EXCEPT !.line_color = color]

SvgSetTickColor(g, color) == [g EXCEPT !.tick_color = color]

SvgSetTextColor(g, color) == [g EXCEPT !.text_color = color]

-----------------------------------------------------------------------------
(* The generators: each takes the generator and gives it back with the     *)
(* nodes it pushed.                                                        *)

PushIf(cond, g, node) == IF cond THEN Push(g, node) ELSE g

SvgSetBackgroundColor(g, color) ==
    IF ~Ok(g) THEN g
    ELSE Push(g, Mark(TagRect(F(0), F(0), GetSvgWidth(g), GetSvgHeight(g), F(1), color),
                      "background", -1, -1))

(* WindowOffset taken from the whole length instead of the free length.   *)
WindowOffsetOfFull(full, size, offset) ==
    FMul(FDiv(full, F(100)), F(offset))

(* Offset of the plot window along one axis of length full.                *)
WindowOffset(full, size, offset) ==
    FMul(FDiv(FMul(full, FSub(F(1), FDiv(F(size), F(100)))), F(100)), F(offset))

SvgSetPlotWindowSize(g, x_size, x_offset, y_size, y_offset) ==
    IF ~Ok(g) THEN g
    ELSE IF ~(x_size <= 100 /\ x_offset <= 100)
    THEN Fail(g, "x_size and or x_offset cannot exceed 100%")
    ELSE IF ~(y_size <= 100 /\ y_offset <= 100)
    THEN Fail(g, "y_size and or y_offset cannot exceed 100%")
    ELSE [g EXCEPT !.plot_window =
             <<FDiv(FMul(GetSvgWidth(g), F(x_size)), F(100)),
               WindowOffset(GetSvgWidth(g), x_size, x_offset),
               FDiv(FMul(GetSvgHeight(g), F(y_size)), F(100)),
               WindowOffset(GetSvgHeight(g), y_size, y_offset)>>]

(* y of the tick of value n.                                               *)
ScaleTickY(y_length, y_offset, min, max, n) ==
    IF min < 0
    THEN FSub(FAdd(y_offset, y_length),
              FSub(FMul(F(n), FDiv(y_length, F(max - min))),
                   FDiv(FMul(F(min), y_length), F(max - min))))
    ELSE FSub(FAdd(y_offset, y_length), FMul(F(n), FDiv(y_length, F(max - min))))

(* One turn of the scale loop with the grid line and the tick written       *)
(* before the label.                                                       *)
ScaleTickPushLabelLast(g, k, n, x1, x2, x_end, y, font_size, line_width, axis_offset, show_horizontal_lines) ==
    Push(PushIf(axis_offset # 0,
                PushIf(show_horizontal_lines, g,
                       Mark(TagLine(x2, x_end, y, y, g.line_color, line_width),
                            "scale_grid", -1, k)),
                Mark(TagLine(x1, x2, y, y, g.tick_color, line_width), "scale_tick", -1, k)),
         Mark(TagText(FSub(x1, FDiv(font_size, <<7, 2>>)),
                      FAdd(y, FDiv(font_size, <<7, 2>>)),
                      g.text_color, font_size, "end", ToString(n)),
              "scale_label", -1, k))

(* One turn of the loop: the label, the grid line, the tick.               *)
ScaleTickPush(g, k, n, x1, x2, x_end, y, font_size, line_width, axis_offset, show_horizontal_lines) ==
    PushIf(axis_offset # 0,
           PushIf(show_horizontal_lines,
                  Push(g, Mark(TagText(FSub(x1, FDiv(font_size, <<7, 2>>)),
                                       FAdd(y, FDiv(font_size, <<7, 2>>)),
                                       g.text_color, font_size, "end", ToString(n)),
                               "scale_label", -1, k)),
                  Mark(TagLine(x2, x_end, y, y, g.line_color, line_width),
                       "scale_grid", -1, k)),
           Mark(TagLine(x1, x2, y, y, g.tick_color, line_width), "scale_tick", -1, k))

(* ScaleLoop over min..max, the upper end left out.                        *)
RECURSIVE ScaleLoopExclusive(_, _, _, _, _, _, _, _)
ScaleLoopExclusive(g, n, k, min, max, step, axis_offset, show_horizontal_lines) ==
    IF n >= max THEN g
    ELSE ScaleLoopExclusive(
             ScaleTickPush(g, k, n,
                 FMul(FDiv(g.plot_window[2], F(100)), F(100 - axis_offset)),
                 g.plot_window[2],
                 FAdd(g.plot_window[1], g.plot_window[2]),
                 ScaleTickY(g.plot_window[3], g.plot_window[4], min, max, n),
                 GetFontSize(g),
                 FDiv(GetBaseLineWidth(g), F(10)),
                 axis_offset, show_horizontal_lines),
             n + step, k + 1, min, max, step, axis_offset, show_horizontal_lines)

(* for n in (min..=max).step_by(step), from value n on, the k-th turn.     *)
RECURSIVE ScaleLoop(_, _, _, _, _, _, _, _)
ScaleLoop(g, n, k, min, max, step, axis_offset, show_horizontal_lines) ==
    IF n > max THEN g
    ELSE ScaleLoop(
             ScaleTickPush(g, k, n,
                 FMul(FDiv(g.plot_window[2], F(100)), F(100 - axis_offset)),
                 g.plot_window[2],
                 FAdd(g.plot_window[1], g.plot_window[2]),
                 ScaleTickY(g.plot_window[3], g.plot_window[4], min, max, n),
                 GetFontSize(g),
                 FDiv(GetBaseLineWidth(g), F(10)),
                 axis_offset, show_horizontal_lines),
             n + step, k + 1, min, max, step, axis_offset, show_horizontal_lines)

ScaleRangeChecked(g, min, max, step, axis_offset, show_horizontal_lines) ==
    IF ~FLt(g.plot_window[1], GetSvgWidth(g))
    THEN Fail(g, "no room for axis, x_length is to high")
    ELSE IF ~FLt(g.plot_window[3], GetSvgHeight(g))
    THEN Fail(g, "no room for axis, y_length is to high")
    ELSE IF step = 0
    THEN Fail(g, "assertion failed: step != 0")
    ELSE ScaleLoop(g, min, 0, min, max, step, axis_offset, show_horizontal_lines)

GenerateScaleRange(g, min, max, step, axis_offset, show_horizontal_lines) ==
    IF ~Ok(g) THEN g
    ELSE ScaleRangeChecked([g EXCEPT !.scale_range = Some(<<min, max, step>>)],
                           min, max, step, axis_offset, show_horizontal_lines)

(* nth_marker without the remainder added.                                *)
NthMarkerNoRemainder(n, m) == n \div m

(* nth_marker, for n bins and m markers.                                   *)
NthMarker(n, m) == (n + (n % m)) \div m

MarkerShift(bin_marker_position, scale_unit) ==
    CASE bin_marker_position = "Middle" -> FDiv(scale_unit, F(2))
      [] bin_marker_position = "Left" -> F(0)
      [] bin_marker_position = "Right" -> scale_unit

(* One turn of the loop: the grid line, the tick, the label.               *)
BinMarkerPush(g, i, x, y_offset, y, y2, y3, line_width, font_size, axis_offset, show_vertical_lines, labelled, text) ==
    PushIf(labelled,
           PushIf(axis_offset # 0,
                  PushIf(show_vertical_lines, g,
                         Mark(TagLine(x, x, y_offset, y, g.line_color, line_width),
                              "bin_grid", -1, i)),
                  Mark(TagLine(x, x, y, y2, g.tick_color, line_width), "bin_tick", -1, i)),
           Mark(TagText(x, y3, g.text_color, font_size, "middle", text), "bin_label", -1, i))

(* y2: the lower end of the ticks.                                         *)
BinTickEnd(g, axis_offset) ==
    FAdd(FAdd(g.plot_window[3], g.plot_window[4]),
         FMul(FDiv(FSub(GetSvgHeight(g), FAdd(g.plot_window[3], g.plot_window[4])), F(100)),
              F(axis_offset)))

(* for i in 0..values[0].len(), from bin i on, with mark_index labels      *)
(* drawn so far.                                                           *)
RECURSIVE BinMarkerLoop(_, _, _, _, _, _, _, _)
BinMarkerLoop(g, markers, i, mark_index, nth_marker, axis_offset, bin_marker_position, show_vertical_lines) ==
    IF i >= Len(g.values[1]) THEN g
    ELSE IF nth_marker = 0
    THEN Fail(g, "attempt to calculate the remainder with a divisor of zero")
    ELSE BinMarkerLoop(
             BinMarkerPush(g, i,
                 FAdd(FAdd(g.plot_window[2],
                           FMul(FDiv(g.plot_window[1], F(Len(g.values[1]))), F(i))),
                      MarkerShift(bin_marker_position,
                                  FDiv(g.plot_window[1], F(Len(g.values[1]))))),
                 g.plot_window[4],
                 FAdd(g.plot_window[3], g.plot_window[4]),
                 BinTickEnd(g, axis_offset),
                 FAdd(BinTickEnd(g, axis_offset), GetFontSize(g)),
                 FDiv(GetBaseLineWidth(g), F(10)),
                 GetFontSize(g),
                 axis_offset, show_vertical_lines,
                 i % nth_marker = 0 /\ Len(markers) > mark_index,
                 IF Len(markers) > mark_index THEN markers[mark_index + 1] ELSE ""),
             markers, i + 1,
             IF i % nth_marker = 0 /\ Len(markers) > mark_index
             THEN mark_index + 1 ELSE mark_index,
             nth_marker, axis_offset, bin_marker_position, show_vertical_lines)

GenerateBinMarkers(g, markers, axis_offset, bin_marker_position, show_vertical_lines) ==
    IF ~Ok(g) THEN g
    ELSE BinMarkerLoop(g, markers, 0, 0, NthMarker(Len(g.values[1]), Len(markers)),
                       axis_offset, bin_marker_position, show_vertical_lines)

(* What generate_bars computes before its loops.                           *)
BarMeasures(y_min, y_max, x_length, y_length, y_offset, n_bins, n_categories, bin_gap, bar_gap) ==
    [top_offset |-> FDiv(FMul(y_min, y_length), FSub(y_max, y_min)),
     y_floor |-> FAdd(y_length, y_offset),
     scale_unit |-> FDiv(y_length, FSub(y_max, y_min)),
     bin_width |-> FDiv(x_length, F(n_bins)),
     bin_margin |-> FMul(FDiv(x_length, F(n_bins)), FDiv(F(bin_gap), F(100))),
     bar_width |-> FDiv(FSub(FDiv(x_length, F(n_bins)),
                             FMul(FDiv(x_length, F(n_bins)), FDiv(F(bin_gap), F(100)))),
                        F(n_categories)),
     bar_margin |-> FMul(FDiv(FSub(FDiv(x_length, F(n_bins)),
                                   FMul(FDiv(x_length, F(n_bins)),
                                        FDiv(F(bin_gap), F(100)))),
                              F(n_categories)),
                         FDiv(F(bar_gap), F(100)))]

(* BarX with the bars of a category shifted by bin widths instead of bar    *)
(* widths.                                                                 *)
BarXShiftedByBins(x_offset, m, category_index, bar_index) ==
    FAdd(FSub(FAdd(FAdd(FAdd(x_offset, FMul(m.bin_width, F(category_index))),
                        FMul(m.bin_width, F(bar_index))),
                   m.bin_margin),
              FDiv(m.bin_margin, F(2))),
         FDiv(m.bar_margin, F(2)))

BarX(x_offset, m, category_index, bar_index) ==
    FAdd(FSub(FAdd(FAdd(FAdd(x_offset, FMul(m.bar_width, F(category_index))),
                        FMul(m.bin_width, F(bar_index))),
                   m.bin_margin),
              FDiv(m.bin_margin, F(2))),
         FDiv(m.bar_margin, F(2)))

(* GoesDown without the test of the minimum.                              *)
GoesDownByFlagOnly(g, negative_bars_go_down) == negative_bars_go_down

(* negative_bars_go_down && self.min < 0.0                                 *)
GoesDown(g, negative_bars_go_down) ==
    negative_bars_go_down /\ FLt(g.min, F(0))

(* BarYHeight with the negative bars hung on the floor of the plot window. *)
BarYHeightFromFloor(down, bar, m) ==
    IF down
    THEN IF FLe(F(0), bar)
         THEN <<FSub(FAdd(m.y_floor, m.top_offset), FMul(bar, m.scale_unit)),
                FMul(bar, m.scale_unit)>>
         ELSE <<m.y_floor, FAbs(FMul(bar, m.scale_unit))>>
    ELSE <<FSub(m.y_floor, FSub(FMul(bar, m.scale_unit), m.top_offset)),
           FSub(FMul(bar, m.scale_unit), m.top_offset)>>

(* (y, height) of a bar of value bar.                                      *)
BarYHeight(down, bar, m) ==
    IF down
    THEN IF FLe(F(0), bar)
         THEN <<FSub(FAdd(m.y_floor, m.top_offset), FMul(bar, m.scale_unit)),
                FMul(bar, m.scale_unit)>>
         ELSE <<FAdd(m.y_floor, m.top_offset), FAbs(FMul(bar, m.scale_unit))>>
    ELSE <<FSub(m.y_floor, FSub(FMul(bar, m.scale_unit), m.top_offset)),
           FSub(FMul(bar, m.scale_unit), m.top_offset)>>

(* BarPush that draws no bar of height zero.                              *)
BarPushNonZero(g, category_index, bar_index, x, yh, width, color) ==
    IF FEq(yh[2], F(0)) THEN g
    ELSE Push(g, Mark(TagRect(x, yh[1], width, yh[2], F(1), color),
                      "bar", category_index, bar_index))

BarPush(g, category_index, bar_index, x, yh, width, color) ==
    Push(g, Mark(TagRect(x, yh[1], width, yh[2], F(1), color),
                 "bar", category_index, bar_index))

(* The two loops of generate_bars, from bar (category_index, bar_index) on. *)
RECURSIVE BarsLoop(_, _, _, _, _)
BarsLoop(g, category_index, bar_index, m, negative_bars_go_down) ==
    IF category_index >= Len(g.values) THEN g
    ELSE IF bar_index >= Len(g.values[category_index + 1])
    THEN BarsLoop(g, category_index + 1, 0, m, negative_bars_go_down)
    ELSE IF ~GetBarColorReturns(g, category_index, bar_index)
    THEN Fail(g, "index out of bounds")
    ELSE BarsLoop(
             BarPush(g, category_index, bar_index,
                     BarX(g.plot_window[2], m, category_index, bar_index),
                     BarYHeight(GoesDown(g, negative_bars_go_down),
                                F(g.values[category_index + 1][bar_index + 1]), m),
                     FSub(m.bar_width, m.bar_margin),
                     GetBarColor(g, category_index, bar_index,
                                 F(g.values[category_index + 1][bar_index + 1]))),
             category_index, bar_index + 1, m, negative_bars_go_down)

GenerateBars(g, negative_bars_go_down) ==
    IF ~Ok(g) THEN g
    ELSE BarsLoop(g, 0, 0,
                  BarMeasures(IF IsSome(g.scale_range) THEN F(g.scale_range[1][1]) ELSE g.min,
                              IF IsSome(g.scale_range) THEN F(g.scale_range[1][2]) ELSE g.max,
                              g.plot_window[1], g.plot_window[3], g.plot_window[4],
                              Len(g.values[1]), Len(g.values),
                              g.bin_margin, g.bar_margin),
                  negative_bars_go_down)

(* x_length / small_shift and y_length / small_shift, small_shift = 1.1.   *)
Pulled(length) == FDiv(length, <<11, 10>>)

TextLeft(g, text, offset, x_offset, y_length, y_offset, fs) ==
    TagTextBottomUp(FAdd(FMul(FDiv(x_offset, F(100)), offset), FDiv(fs, F(2))),
                    FAdd(y_offset, Pulled(y_length)),
                    g.text_color, fs, "start", text)

TextRight(g, text, offset, x_length, x_offset, y_length, y_offset, shift, fs) ==
    TagTextTopDown(FAdd(FAdd(x_offset, x_length),
                        FSub(shift, FMul(FDiv(shift, F(100)), offset))),
                   FAdd(y_offset, FSub(y_length, Pulled(y_length))),
                   g.text_color, fs, "start", text)

TextTop(g, text, offset, x_length, x_offset, y_offset, fs) ==
    TagText(FAdd(x_offset, FSub(x_length, Pulled(x_length))),
            FAdd(FMul(FDiv(y_offset, F(100)), offset), FDiv(fs, F(2))),
            g.text_color, fs, "start", text)

TextBottom(g, text, offset, x_length, x_offset, shift, fs) ==
    TagText(FAdd(x_offset, FSub(x_length, Pulled(x_length))),
            FSub(GetSvgHeight(g), FMul(FDiv(shift, F(100)), offset)),
            g.text_color, fs, "start", text)

GenerateText(g, text, side, offset) ==
    IF ~Ok(g) THEN g
    ELSE CASE side = "Left" ->
                IF ~FLt(g.plot_window[1], GetSvgWidth(g))
                THEN Fail(g, "no room for left side text, x_length is to high")
                ELSE Push(g, Mark(TextLeft(g, text, F(offset), g.plot_window[2],
                                           g.plot_window[3], g.plot_window[4],
                                           GetFontSize(g)),
                                  "text_left", -1, -1))
           [] side = "Right" ->
                IF ~FLt(g.plot_window[1], GetSvgWidth(g))
                THEN Fail(g, "no room for right side text, x_length is to high")
                ELSE Push(g, Mark(TextRight(g, text, F(offset), g.plot_window[1],
                                            g.plot_window[2], g.plot_window[3],
                                            g.plot_window[4],
                                            FSub(GetSvgWidth(g),
                                                 FAdd(g.plot_window[1], g.plot_window[2])),
                                            GetFontSize(g)),
                                  "text_right", -1, -1))
           [] side = "Top" ->
                IF ~FLt(g.plot_window[3], GetSvgHeight(g))
                THEN Fail(g, "no room for top side text, y_length is to high")
                ELSE Push(g, Mark(TextTop(g, text, F(offset), g.plot_window[1],
                                          g.plot_window[2], g.plot_window[4],
                                          GetFontSize(g)),
                                  "text_top", -1, -1))
           [] side = "Bottom" ->
                IF ~FLt(g.plot_window[3], GetSvgHeight(g))
                THEN Fail(g, "no room for bottom side text, y_length is to high")
                ELSE Push(g, Mark(TextBottom(g, text, F(offset), g.plot_window[1],
                                             g.plot_window[2],
                                             FSub(GetSvgHeight(g),
                                                  FAdd(g.plot_window[3], g.plot_window[4])),
                                             GetFontSize(g)),
                                  "text_bottom", -1, -1))

(* Swatch colours that ignore the layout: the default bar colour once per  *)
(* title even under the Category layout.                                   *)
LegendColorsDefaultOnly(g, titles) ==
    [i \in 1..Len(titles) |-> DEFAULT_BAR_COLOR]

(* The swatch colours: those of the Category layout, else the default bar  *)
(* colour once per title.                                                  *)
LegendColors(g, titles) ==
    IF g.enum_bar_colors.kind = "Category" THEN g.enum_bar_colors.colors
    ELSE [i \in 1..Len(titles) |-> DEFAULT_BAR_COLOR]

LegendPush(g, i, title, color, x, y, font_size) ==
    Push(Push(g, Mark(TagRect(FSub(x, FMul(font_size, <<3, 2>>)), FSub(y, font_size),
                              font_size, font_size, F(1), color),
                      "legend_swatch", i, -1)),
         Mark(TagText(x, FSub(y, FMul(font_size, <<3, 20>>)), g.text_color, font_size,
                      "start", title),
              "legend_label", i, -1))

(* for (title, color) in titles.iter().zip(colors.iter()), from entry i on *)
(* at height y.                                                            *)
RECURSIVE LegendLoop(_, _, _, _, _, _)
LegendLoop(g, titles, colors, i, x, y) ==
    IF i >= Len(titles) \/ i >= Len(colors) THEN g
    ELSE LegendLoop(LegendPush(g, i, titles[i + 1], colors[i + 1], x, y, GetFontSize(g)),
                    titles, colors, i + 1, x, FAdd(y, FMul(GetFontSize(g), <<6, 5>>)))

GenerateLegend(g, titles, x, y) ==
    IF ~Ok(g) THEN g
    ELSE LegendLoop(g, titles, LegendColors(g, titles), 0,
                    FMul(FDiv(GetSvgWidth(g), F(100)), F(x)),
                    FMul(FDiv(GetSvgHeight(g), F(100)), F(y)))

(* The four lines of a border: left, top, right, bottom.                   *)
BorderPush(g, win, color, width, part) ==
    Push(Push(Push(Push(g,
        Mark(TagLine(win[1], win[1], win[3], win[4], color, width), part, -1, 0)),
        Mark(TagLine(win[1], win[2], win[3], win[3], color, width), part, -1, 1)),
        Mark(TagLine(win[2], win[2], win[3], win[4], color, width), part, -1, 2)),
        Mark(TagLine(win[1], win[2], win[4], win[4], color, width), part, -1, 3))

GeneratePlotBorder(g, color) ==
    IF ~Ok(g) THEN g
    ELSE BorderPush(g, GetPlotWindow(g), color, FDiv(GetBaseLineWidth(g), F(10)),
                    "plot_border")

GenerateSvgBorder(g, color) ==
    IF ~Ok(g) THEN g
    ELSE BorderPush(g, GetSvgWindow(g), color, FDiv(GetBaseLineWidth(g), F(5)),
                    "svg_border")

(* Custom lines.  tests/plots.rs (wind_forecast) calls                     *)
(* add_vertical_line_at(percent, color); the method and the generator of   *)
(* the lines are not in src/lib.rs and src/svg.rs, so they follow sections *)
(* 3, 4.6 and 4.7 of the specification: a list of lines kept in insertion   *)
(* order, a vertical line at p% drawn at x = x1 + pw * p/100 from y1 to y2 *)
(* at stroke lw/5, after the plot border.                                  *)

(* The position of a vertical line measured along the canvas instead of    *)
(* the plot box.                                                           *)
CustomLineXOfCanvas(g, percent) ==
    FDiv(FMul(F(g.svg_window[1]), percent), F(100))

CustomLineX(g, percent) ==
    FAdd(GetPlotWindow(g)[1],
         FDiv(FMul(FSub(GetPlotWindow(g)[2], GetPlotWindow(g)[1]), percent), F(100)))

CustomLinePush(g, i, line) ==
    Push(g, Mark(TagLine(CustomLineX(g, line.percent), CustomLineX(g, line.percent),
                         GetPlotWindow(g)[3], GetPlotWindow(g)[4], line.color,
                         FDiv(GetBaseLineWidth(g), F(5))),
                 "custom_line", -1, i))

RECURSIVE CustomLinesLoop(_, _, _)
CustomLinesLoop(g, lines, i) ==
    IF i >= Len(lines) THEN g
    ELSE CustomLinesLoop(CustomLinePush(g, i, lines[i + 1]), lines, i + 1)

GenerateCustomLines(g, lines) ==
    IF ~Ok(g) THEN g ELSE CustomLinesLoop(g, lines, 0)

(* The document, or the panic that ended the render.                       *)
GenerateSvg(g) ==
    IF Ok(g) THEN Svg(g.nodes, g.svg_window) ELSE Panic(g.panic[1])

-----------------------------------------------------------------------------
(* render: its steps, in the order of the source.                          *)

RenderBackground(g, d) ==
    IF IsSome(d.background_color) THEN SvgSetBackgroundColor(g, d.background_color[1])
    ELSE g

RenderColors(g, d) ==
    SvgSetTickColor(SvgSetTextColor(SvgSetLineColor(g, d.line_color), d.text_color),
                    d.tick_color)

RenderPlotWindow(g, d) ==
    IF IsSome(d.plot_window_scale)
    THEN SvgSetPlotWindowSize(g, d.plot_window_scale[1][1], d.plot_window_scale[1][2],
                              d.plot_window_scale[1][3], d.plot_window_scale[1][4])
    ELSE g

RenderBinMarkers(g, d) ==
    IF IsSome(d.bin_markers) /\ Ok(g)
    THEN IF d.bin_markers[1] = <<>>
         THEN Fail(g, "assertion failed: !markers.is_empty()")
         ELSE GenerateBinMarkers(g, d.bin_markers[1],
                                 UnwrapOr(d.x_axis_tick_length, DEFAULT_TICK_LENGTH),
                                 d.bin_marker_position, d.show_vertical_lines)
    ELSE g

RenderScaleRange(g, d) ==
    IF IsSome(d.scale_range)
    THEN GenerateScaleRange(g, d.scale_range[1][1], d.scale_range[1][2],
                            d.scale_range[1][3],
                            UnwrapOr(d.y_axis_tick_length, DEFAULT_TICK_LENGTH),
                            d.show_horizontal_lines)
    ELSE g

RenderTextLeft(g, d) ==
    IF IsSome(d.plot_text.left)
    THEN GenerateText(g, d.plot_text.left[1], "Left",
                      UnwrapOr(d.plot_text.left_offset, DEFAULT_TEXT_SIDE_OFFSET))
    ELSE g

RenderTextRight(g, d) ==
    IF IsSome(d.plot_text.right)
    THEN GenerateText(g, d.plot_text.right[1], "Right",
                      UnwrapOr(d.plot_text.right_offset, DEFAULT_TEXT_SIDE_OFFSET))
    ELSE g

RenderTextTop(g, d) ==
    IF IsSome(d.plot_text.top)
    THEN GenerateText(g, d.plot_text.top[1], "Top",
                      UnwrapOr(d.plot_text.top_offset, DEFAULT_TEXT_SIDE_OFFSET))
    ELSE g

RenderTextBottom(g, d) ==
    IF IsSome(d.plot_text.bottom)
    THEN GenerateText(g, d.plot_text.bottom[1], "Bottom",
                      UnwrapOr(d.plot_text.bottom_offset, DEFAULT_TEXT_SIDE_OFFSET))
    ELSE g

RenderSvgBorder(g, d) ==
    IF d.show_window_border THEN GenerateSvgBorder(g, d.line_color) ELSE g

RenderBars(g, d) == GenerateBars(g, d.negative_bars_go_down)

RenderLegend(g, d) ==
    IF IsSome(d.legend.categories)
    THEN GenerateLegend(g, d.legend.categories[1],
                        UnwrapOr(d.legend.position, DEFAULT_LEGEND_POSITION)[1],
                        UnwrapOr(d.legend.position, DEFAULT_LEGEND_POSITION)[2])
    ELSE g

RenderPlotBorder(g, d) ==
    IF d.show_plot_border THEN GeneratePlotBorder(g, d.line_color) ELSE g

RenderCustomLines(g, d) == GenerateCustomLines(g, d.custom_lines)

(* render with the bars emitted last, after the legend and the plot border. *)
RenderBarsLast(d) ==
    GenerateSvg(
      RenderCustomLines(
      RenderBars(
      RenderPlotBorder(
      RenderLegend(
      RenderSvgBorder(
      RenderTextBottom(
      RenderTextTop(
      RenderTextRight(
      RenderTextLeft(
      RenderScaleRange(
      RenderBinMarkers(
      RenderPlotWindow(
      RenderColors(
      RenderBackground(SvgGeneratorNew(d), d), d), d), d), d), d), d), d), d), d), d), d), d), d))

Render(d) ==
    GenerateSvg(
      RenderCustomLines(
      RenderPlotBorder(
      RenderLegend(
      RenderBars(
      RenderSvgBorder(
      RenderTextBottom(
      RenderTextTop(
      RenderTextRight(
      RenderTextLeft(
      RenderScaleRange(
      RenderBinMarkers(
      RenderPlotWindow(
      RenderColors(
      RenderBackground(SvgGeneratorNew(d), d), d), d), d), d), d), d), d), d), d), d), d), d), d))

-----------------------------------------------------------------------------
(* src/lib.rs: the operations of BarPlot.                                  *)

New ==
    /\ bp = BarPlotNew
    /\ ret = Unit

(* AddValuesPanics with the length compared only from the third series on. *)
AddValuesPanicsLate(d, values) ==
    Len(d.values) > 1 /\ Len(d.values[1]) # Len(values)

AddValuesPanics(d, values) ==
    d.values # <<>> /\ Len(d.values[1]) # Len(values)

AddValues(values) ==
    IF AddValuesPanics(bp, values)
    THEN /\ ret' = Panic("Added values should be same count as old")
         /\ UNCHANGED bp
    ELSE /\ bp' = [bp EXCEPT !.values = Append(@, values)]
         /\ ret' = Unit

SetBackgroundColor(color) ==
    /\ bp' = [bp EXCEPT !.background_color = Some(color)]
    /\ ret' = Unit

SetLineColor(color) ==
    /\ bp' = [bp EXCEPT !.line_color = color]
    /\ ret' = Unit

SetTextColor(color) ==
    /\ bp' = [bp EXCEPT !.text_color = color]
    /\ ret' = Unit

SetTickColor(color) ==
    /\ bp' = [bp EXCEPT !.tick_color = color]
    /\ ret' = Unit

SetBarColorsByUniform(color) ==
    /\ bp' = [bp EXCEPT !.bar_color_variant = Uniform(color)]
    /\ ret' = Unit

SetBarColorsByThreshold(min, low, high, max) ==
    /\ bp' = [bp EXCEPT !.bar_color_variant = Threshold(min, low, high, max)]
    /\ ret' = Unit

(* add_bar_colors_by_category that starts a new list on every call.        *)
AddBarColorsByCategoryAnew(color) ==
    /\ bp' = [bp EXCEPT !.bar_color_variant = Category(<<color>>)]
    /\ ret' = Unit

AddBarColorsByCategory(color) ==
    /\ bp' = [bp EXCEPT !.bar_color_variant =
                 IF @.kind = "Category" THEN Category(Append(@.colors, color))
                 ELSE Category(<<color>>)]
    /\ ret' = Unit

(* add_bar_colors_from_vec that starts a new list on every call.           *)
AddBarColorsFromVecAnew(colors) ==
    /\ bp' = [bp EXCEPT !.bar_color_variant = Indexed(<<colors>>)]
    /\ ret' = Unit

AddBarColorsFromVec(colors) ==
    /\ bp' = [bp EXCEPT !.bar_color_variant =
                 IF @.kind = "Indexed" THEN Indexed(Append(@.matrix, colors))
                 ELSE Indexed(<<colors>>)]
    /\ ret' = Unit

(* add_bar_color_override without its assertion.                           *)
AddBarColorOverrideUnchecked(category, bar, color) ==
    /\ bp' = [bp EXCEPT !.bar_colors_override = Append(@, <<category, bar, color>>)]
    /\ ret' = Unit

AddBarColorOverride(category, bar, color) ==
    IF bp.values = <<>>
    THEN /\ ret' = Panic("Can't override bar, because no bars (values) have been added yet.")
         /\ UNCHANGED bp
    ELSE /\ bp' = [bp EXCEPT !.bar_colors_override = Append(@, <<category, bar, color>>)]
         /\ ret' = Unit

SetShowHorizontalLines ==
    /\ bp' = [bp EXCEPT !.show_horizontal_lines = TRUE]
    /\ ret' = Unit

SetShowVerticalLines ==
    /\ bp' = [bp EXCEPT !.show_vertical_lines = TRUE]
    /\ ret' = Unit

SetPlotWindowSize(x_length, x_offset, y_length, y_offset) ==
    IF ~(x_length <= 100 /\ x_offset <= 100)
    THEN /\ ret' = Panic("plot window width cannot exceed 100%")
         /\ UNCHANGED bp
    ELSE IF ~(y_length <= 100 /\ y_offset <= 100)
    THEN /\ ret' = Panic("plot window height cannot exceed 100%")
         /\ UNCHANGED bp
    ELSE /\ bp' = [bp EXCEPT !.plot_window_scale =
                      Some(<<x_length, x_offset, y_length, y_offset>>)]
         /\ ret' = Unit

SetScaleRange(min, max, step) ==
    /\ bp' = [bp EXCEPT !.scale_range = Some(<<min, max, step>>)]
    /\ ret' = Unit

SetBinMarkers(bin_markers) ==
    /\ bp' = [bp EXCEPT !.bin_markers = Some(bin_markers)]
    /\ ret' = Unit

SetBinMarkersMiddle ==
    /\ bp' = [bp EXCEPT !.bin_marker_position = "Middle"]
    /\ ret' = Unit

SetBinMarkersLeft ==
    /\ bp' = [bp EXCEPT !.bin_marker_position = "Left"]
    /\ ret' = Unit

SetBinMarkersRight ==
    /\ bp' = [bp EXCEPT !.bin_marker_position = "Right"]
    /\ ret' = Unit

SetBarGap(gap) ==
    /\ bp' = [bp EXCEPT !.bar_gap = gap]
    /\ ret' = Unit

SetBinGap(gap) ==
    /\ bp' = [bp EXCEPT !.bin_gap = gap]
    /\ ret' = Unit

SetYAxisTickLength(p) ==
    /\ bp' = [bp EXCEPT !.y_axis_tick_length = Some(p)]
    /\ ret' = Unit

SetXAxisTickLength(p) ==
    /\ bp' = [bp EXCEPT !.x_axis_tick_length = Some(p)]
    /\ ret' = Unit

SetNegativeBarsGoDown ==
    /\ bp' = [bp EXCEPT !.negative_bars_go_down = TRUE]
    /\ ret' = Unit

SetTextLeft(text) ==
    /\ bp' = [bp EXCEPT !.plot_text.left = Some(text)]
    /\ ret' = Unit

SetTextLeftOffset(offset) ==
    /\ bp' = [bp EXCEPT !.plot_text.left_offset = Some(offset)]
    /\ ret' = Unit

SetTextRight(text) ==
    /\ bp' = [bp EXCEPT !.plot_text.right = Some(text)]
    /\ ret' = Unit

SetTextRightOffset(offset) ==
    /\ bp' = [bp EXCEPT !.plot_text.right_offset = Some(offset)]
    /\ ret' = Unit

SetTextBottom(text) ==
    /\ bp' = [bp EXCEPT !.plot_text.bottom = Some(text)]
    /\ ret' = Unit

SetTextBottomOffset(offset) ==
    /\ bp' = [bp EXCEPT !.plot_text.bottom_offset = Some(offset)]
    /\ ret' = Unit

SetTextTop(text) ==
    /\ bp' = [bp EXCEPT !.plot_text.top = Some(text)]
    /\ ret' = Unit

SetTextTopOffset(offset) ==
    /\ bp' = [bp EXCEPT !.plot_text.top_offset = Some(offset)]
    /\ ret' = Unit

(* add_vertical_line_at, as tests/plots.rs calls it: one more custom line. *)
AddVerticalLineAt(percent, color) ==
    /\ bp' = [bp EXCEPT !.custom_lines = Append(@, [kind |-> "Vertical", percent |-> percent, color |-> color])]
    /\ ret' = Unit

SetLegend(categories) ==
    /\ bp' = [bp EXCEPT !.legend.categories = Some(categories)]
    /\ ret' = Unit

SetLegendPosition(x, y) ==
    /\ bp' = [bp EXCEPT !.legend.position = Some(<<x, y>>)]
    /\ ret' = Unit

SetFontSize(p) ==
    /\ bp' = [bp EXCEPT !.font_size = p]
    /\ ret' = Unit

SetShowWindowBorder ==
    /\ bp' = [bp EXCEPT !.show_window_border = TRUE]
    /\ ret' = Unit

SetShowPlotBorder ==
    /\ bp' = [bp EXCEPT !.show_plot_border = TRUE]
    /\ ret' = Unit

(* ColorLayoutPanics without the comparison of each colour vector with    *)
(* its series.                                                             *)
ColorLayoutPanicsOuterOnly(d) ==
    CASE d.bar_color_variant.kind = "Category" ->
            Len(d.values) # Len(d.bar_color_variant.colors)
      [] d.bar_color_variant.kind = "Indexed" ->
            Len(d.values) # Len(d.bar_color_variant.matrix)
      [] OTHER -> FALSE

(* The assertions of to_svg on the colour layout.                          *)
ColorLayoutPanics(d) ==
    LET v == d.bar_color_variant
        n_categories == Len(d.values)
    IN  CASE v.kind = "Category" -> n_categories # Len(v.colors)
          [] v.kind = "Indexed" ->
                \/ n_categories # Len(v.matrix)
                \/ \E i \in 1..n_categories : Len(d.values[i]) # Len(v.matrix[i])
          [] OTHER -> FALSE

(* to_svg on description d: the description it leaves and what it returns. *)
ToSvgResult(d, width, height) ==
    IF d.values = <<>>
    THEN [bp |-> d, ret |-> Panic("Can not generate plot without any values..")]
    ELSE IF ColorLayoutPanics(d)
    THEN [bp |-> d, ret |-> Panic("Got n categories and m colors.")]
    ELSE [bp |-> [d EXCEPT !.size = Some(<<width, height>>)],
          ret |-> Render([d EXCEPT !.size = Some(<<width, height>>)])]

ToSvg(width, height) ==
    LET r == ToSvgResult(bp, width, height)
    IN  /\ bp' = r.bp
        /\ ret' = r.ret

-----------------------------------------------------------------------------
(* Inputs of the model.                                                    *)

Values == {-2, 0, 1, 3}

SeriesInputs == UNION {[1..n -> Values] : n \in 0..MaxBars}

(* The plot has room for one more series of this length.                   *)
RoomFor(values) ==
    Len(bp.values) < MaxK /\ (Len(bp.values) + 1) * Len(values) <= MaxBars

Init == New

(* Series of every length and value, the threshold layout, rendering.      *)
NextStats ==
    \/ \E v \in SeriesInputs : RoomFor(v) /\ AddValues(v)
    \/ SetBarColorsByThreshold("minC", "lowC", "highC", "maxC")
    \/ ToSvg(1600, 900)

SpecStats == Init /\ [][NextStats]_vars

ColorSeries == {<<1, 3>>, <<3, 0>>}

CategoryColors == {"Red", "Blue"}

IndexedVectors == {<<"Cyan", "Navy">>}

OverrideInputs == {<<0, 0, "Gold">>, <<0, 0, "Pink">>, <<1, 1, "Gold">>}

Canvases == {<<1600, 900>>, <<400, 400>>}

(* Two-bin series, the four colour layouts, overrides, rendering on two    *)
(* canvases.                                                               *)
NextColors ==
    \/ \E v \in ColorSeries : RoomFor(v) /\ AddValues(v)
    \/ SetBarColorsByUniform("Teal")
    \/ SetBarColorsByThreshold("minC", "lowC", "highC", "maxC")
    \/ \E color \in CategoryColors :
          /\ Len(bp.bar_color_variant.colors) < MaxK \/ bp.bar_color_variant.kind # "Category"
          /\ AddBarColorsByCategory(color)
    \/ \E colors \in IndexedVectors :
          /\ Len(bp.bar_color_variant.matrix) < MaxK
          /\ AddBarColorsFromVec(colors)
    \/ \E o \in OverrideInputs :
          /\ Len(bp.bar_colors_override) < MaxOverrides
          /\ AddBarColorOverride(o[1], o[2], o[3])
    \/ \E size \in Canvases : ToSvg(size[1], size[2])

SpecColors == Init /\ [][NextColors]_vars

LayerSeries == <<<<1, 3>>, <<3, 0>>>>

LayerScales == {<<0, 4, 2>>}

(* Every layer of the document switched on or off; the series come in a    *)
(* fixed order, the scale and the side texts after the plot window, the    *)
(* side texts one after the other, the grid lines after their axis.        *)
NextLayers ==
    \/ /\ Len(bp.values) < Len(LayerSeries)
       /\ RoomFor(LayerSeries[Len(bp.values) + 1])
       /\ AddValues(LayerSeries[Len(bp.values) + 1])
    \/ SetBackgroundColor("Ivory")
    \/ SetPlotWindowSize(90, 65, 85, 40)
    \/ SetBinMarkers(<<"a", "b">>)
    \/ IsSome(bp.bin_markers) /\ SetShowVerticalLines
    \/ \E r \in LayerScales :
          IsSome(bp.plot_window_scale) /\ SetScaleRange(r[1], r[2], r[3])
    \/ IsSome(bp.scale_range) /\ SetShowHorizontalLines
    \/ IsSome(bp.plot_window_scale) /\ SetTextLeft("left")
    \/ IsSome(bp.plot_text.left) /\ SetTextRight("right")
    \/ IsSome(bp.plot_text.right) /\ SetTextTop("top")
    \/ IsSome(bp.plot_text.top) /\ SetTextBottom("bottom")
    \/ SetShowWindowBorder
    \/ SetShowPlotBorder
    \/ SetLegend(<<"x", "y">>)
    \/ ToSvg(1600, 900)

SpecLayers == Init /\ [][NextLayers]_vars

AxisScales == {<<0, 4, 2>>, <<-2, 3, 2>>, <<0, 3, 1>>, <<1, 2, 3>>}

TickLengths == {0, 30}

AxisWindows == {<<90, 65, 85, 40>>, <<100, 0, 100, 0>>}

(* One series, the value scale, the tick length of the value axis, the     *)
(* horizontal grid, two plot windows, rendering on two canvases.           *)
NextAxis ==
    \/ bp.values = <<>> /\ AddValues(<<1, 3>>)
    \/ \E w \in AxisWindows : SetPlotWindowSize(w[1], w[2], w[3], w[4])
    \/ \E r \in AxisScales : SetScaleRange(r[1], r[2], r[3])
    \/ \E p \in TickLengths : SetYAxisTickLength(p)
    \/ SetShowHorizontalLines
    \/ \E size \in Canvases : ToSvg(size[1], size[2])

SpecAxis == Init /\ [][NextAxis]_vars

LayoutSeries == {<<1, 3>>, <<3>>}

LayoutVectors == {<<"Cyan", "Navy">>, <<"Lime">>}

(* Series of one or two bins, and Category and Indexed layouts of up to    *)
(* one colour or vector more than there can be series.                     *)
NextLayout ==
    \/ \E v \in LayoutSeries : RoomFor(v) /\ AddValues(v)
    \/ SetBarColorsByUniform("Teal")
    \/ /\ Len(bp.bar_color_variant.colors) <= MaxK \/ bp.bar_color_variant.kind # "Category"
       /\ AddBarColorsByCategory("Red")
    \/ \E colors \in LayoutVectors :
          /\ Len(bp.bar_color_variant.matrix) <= MaxK
          /\ AddBarColorsFromVec(colors)
    \/ \E size \in Canvases : ToSvg(size[1], size[2])

SpecLayout == Init /\ [][NextLayout]_vars

PercentWindows == {<<90, 65, 85, 40>>, <<-10, 50, 80, 50>>, <<120, 0, 80, 0>>, <<80, 0, 80, 101>>}

PercentGaps == {-10, 20, 150}

PercentTicks == {-10, 150}

(* One series and percentages inside and outside 0..100 given to the plot   *)
(* window, the gaps and the tick lengths.                                   *)
NextPercent ==
    \/ bp.values = <<>> /\ AddValues(<<1, 3>>)
    \/ \E w \in PercentWindows : SetPlotWindowSize(w[1], w[2], w[3], w[4])
    \/ \E gap \in PercentGaps : SetBinGap(gap)
    \/ \E gap \in PercentGaps \ {20} : SetBarGap(gap)
    \/ SetBinMarkers(<<"a", "b">>)
    \/ \E p \in PercentTicks : SetXAxisTickLength(p)
    \/ ToSvg(1600, 900)

SpecPercent == Init /\ [][NextPercent]_vars

BadScales == {<<0, 4, 0>>, <<4, 0, 2>>, <<2, 2, 1>>, <<0, 4, 2>>}

(* One series, a plot window, and scales with step 0, with min above max   *)
(* and with min equal to max beside a valid one.                           *)
NextScale ==
    \/ bp.values = <<>> /\ AddValues(<<1, 3>>)
    \/ \E w \in AxisWindows : SetPlotWindowSize(w[1], w[2], w[3], w[4])
    \/ \E r \in BadScales : SetScaleRange(r[1], r[2], r[3])
    \/ SetShowHorizontalLines
    \/ \E size \in Canvases : ToSvg(size[1], size[2])

SpecScale == Init /\ [][NextScale]_vars

WindowPercents == {0, 35, 100}

(* One series, every plot window with percentages from WindowPercents, the  *)
(* plot border, rendering on two canvases.                                  *)
NextWindow ==
    \/ bp.values = <<>> /\ AddValues(<<1, 3>>)
    \/ \E xs \in WindowPercents : \E xo \in WindowPercents :
       \E ys \in WindowPercents : \E yo \in WindowPercents :
          SetPlotWindowSize(xs, xo, ys, yo)
    \/ SetShowPlotBorder
    \/ \E size \in Canvases : ToSvg(size[1], size[2])

SpecWindow == Init /\ [][NextWindow]_vars

MarkerBins == {3, 5, 6}

MarkerCounts == {1, 2, 3, 4, 6}

MarkerTicks == {0, 20}

(* One series of 3, 5 or 6 bins, marker lists "0", "1", ... of several      *)
(* lengths, the vertical grid, the tick length of the bin axis.             *)
NextMarkers ==
    \/ \E n \in MarkerBins : bp.values = <<>> /\ AddValues([i \in 1..n |-> 1])
    \/ \E m \in MarkerCounts : SetBinMarkers([k \in 1..m |-> ToString(k - 1)])
    \/ SetShowVerticalLines
    \/ \E p \in MarkerTicks : SetXAxisTickLength(p)
    \/ SetBinMarkersLeft
    \/ ToSvg(1600, 900)

SpecMarkers == Init /\ [][NextMarkers]_vars

NegativeSeries == {<<1, 3>>, <<-2, 3>>}

NegativeScales == {<<-2, 4, 2>>, <<1, 4, 1>>, <<-3, 3, 3>>}

(* Series with and without a negative value, a plot window, scales with a   *)
(* minimum below and above 0, the negative-down flag.                       *)
NextNegative ==
    \/ \E v \in NegativeSeries : RoomFor(v) /\ AddValues(v)
    \/ SetPlotWindowSize(90, 65, 85, 40)
    \/ \E r \in NegativeScales :
          IsSome(bp.plot_window_scale) /\ SetScaleRange(r[1], r[2], r[3])
    \/ SetNegativeBarsGoDown
    \/ ToSvg(1600, 900)

SpecNegative == Init /\ [][NextNegative]_vars

LegendTitles == {<<"a">>, <<"a", "b">>, <<"a", "b", "c">>}

LegendPositions == {<<0, 100>>, <<50, 50>>}

(* One or two series, the Category and Threshold layouts, an override, a   *)
(* legend of one to three titles at the default and at two set positions,  *)
(* rendering on two canvases.                                              *)
NextLegend ==
    \/ RoomFor(<<1, 3>>) /\ AddValues(<<1, 3>>)
    \/ \E color \in CategoryColors :
          /\ Len(bp.bar_color_variant.colors) < MaxK \/ bp.bar_color_variant.kind # "Category"
          /\ AddBarColorsByCategory(color)
    \/ SetBarColorsByThreshold("minC", "lowC", "highC", "maxC")
    \/ bp.bar_colors_override = <<>> /\ AddBarColorOverride(0, 0, "Gold")
    \/ \E titles \in LegendTitles : SetLegend(titles)
    \/ \E p \in LegendPositions : SetLegendPosition(p[1], p[2])
    \/ \E size \in Canvases : ToSvg(size[1], size[2])

SpecLegend == Init /\ [][NextLegend]_vars

MaxLines == 2

LinePercents == {<<75, 2>>, <<100, 1>>}

LineColors == {"White", "Gray"}

(* One series, the plot window, the plot border and up to MaxLines vertical *)
(* lines at 37.5% and 100% in two colours, rendering on two canvases.       *)
NextLines ==
    \/ bp.values = <<>> /\ AddValues(<<1, 3>>)
    \/ SetPlotWindowSize(90, 65, 85, 40)
    \/ SetShowPlotBorder
    \/ \E p \in LinePercents : \E color \in LineColors :
          Len(bp.custom_lines) < MaxLines /\ AddVerticalLineAt(p, color)
    \/ \E size \in Canvases : ToSvg(size[1], size[2])

SpecLines == Init /\ [][NextLines]_vars

CallSeries == {<<1, 3>>, <<3, 0>>, <<2>>}

UniformColors == {"Teal", "Plum"}

CallMarkers == {<<"a", "b">>, <<"c">>}

(* The add_ and set_ methods called again and again with different         *)
(* arguments: series, category colours, colour vectors, overrides, the     *)
(* uniform colour, the bin markers.                                        *)
NextCalls ==
    \/ \E v \in CallSeries : RoomFor(v) /\ AddValues(v)
    \/ \E color \in CategoryColors :
          /\ Len(bp.bar_color_variant.colors) < MaxK \/ bp.bar_color_variant.kind # "Category"
          /\ AddBarColorsByCategory(color)
    \/ \E colors \in IndexedVectors :
          /\ Len(bp.bar_color_variant.matrix) < MaxK
          /\ AddBarColorsFromVec(colors)
    \/ Len(bp.bar_colors_override) < MaxOverrides /\ AddBarColorOverride(0, 0, "Gold")
    \/ \E color \in UniformColors : SetBarColorsByUniform(color)
    \/ \E m \in CallMarkers : SetBinMarkers(m)
    \/ ToSvg(1600, 900)

SpecCalls == Init /\ [][NextCalls]_vars

AutoSeries == [1..2 -> Values]

(* One or two series of two values each, no scale range, with and without  *)
(* the plot window and the negative-down flag, rendering on two canvases.  *)
NextAuto ==
    \/ \E v \in AutoSeries : RoomFor(v) /\ AddValues(v)
    \/ SetPlotWindowSize(90, 65, 85, 40)
    \/ SetNegativeBarsGoDown
    \/ \E size \in Canvases : ToSvg(size[1], size[2])

SpecAuto == Init /\ [][NextAuto]_vars

(* One series, the plot window, both axes, both grids and the tick lengths *)
(* 0 and 30 of both axes.                                                  *)
NextTicks ==
    \/ bp.values = <<>> /\ AddValues(<<1, 3>>)
    \/ SetPlotWindowSize(90, 65, 85, 40)
    \/ IsSome(bp.plot_window_scale) /\ SetScaleRange(0, 4, 2)
    \/ SetBinMarkers(<<"a", "b">>)
    \/ SetShowHorizontalLines
    \/ SetShowVerticalLines
    \/ \E p \in TickLengths : SetYAxisTickLength(p)
    \/ \E p \in TickLengths : SetXAxisTickLength(p)
    \/ ToSvg(1600, 900)

SpecTicks == Init /\ [][NextTicks]_vars

GapSeries == {<<1, 3>>, <<3>>}

GapPercents == {0, 50, 100}

(* Series of one or two bins, the bin gap and the bar gap at 0, 50 and 100  *)
(* percent, with and without the plot window.                               *)
NextGaps ==
    \/ \E v \in GapSeries : RoomFor(v) /\ AddValues(v)
    \/ \E gap \in GapPercents : SetBinGap(gap)
    \/ \E gap \in GapPercents : SetBarGap(gap)
    \/ SetPlotWindowSize(90, 65, 85, 40)
    \/ ToSvg(1600, 900)

SpecGaps == Init /\ [][NextGaps]_vars

CrowdBins == {1, 2}

CrowdCounts == 0..5

(* One series of one or two bins and marker lists of no to five markers,    *)
(* more than twice the bins among them.                                     *)
NextCrowd ==
    \/ \E n \in CrowdBins : bp.values = <<>> /\ AddValues([i \in 1..n |-> 1])
    \/ \E m \in CrowdCounts : SetBinMarkers([k \in 1..m |-> ToString(k - 1)])
    \/ \E p \in MarkerTicks : SetXAxisTickLength(p)
    \/ SetBinMarkersLeft
    \/ ToSvg(1600, 900)

SpecCrowd == Init /\ [][NextCrowd]_vars

(* Series of one or two bins and the four layout calls in every order, the *)
(* Category and Indexed lists up to one entry longer than there can be     *)
(* series.                                                                 *)
NextSwitch ==
    \/ \E v \in LayoutSeries : RoomFor(v) /\ AddValues(v)
    \/ SetBarColorsByUniform("Teal")
    \/ SetBarColorsByThreshold("minC", "lowC", "highC", "maxC")
    \/ /\ Len(bp.bar_color_variant.colors) <= MaxK \/ bp.bar_color_variant.kind # "Category"
       /\ AddBarColorsByCategory("Red")
    \/ \E colors \in LayoutVectors :
          /\ Len(bp.bar_color_variant.matrix) <= MaxK
          /\ AddBarColorsFromVec(colors)
    \/ ToSvg(1600, 900)

SpecSwitch == Init /\ [][NextSwitch]_vars

-----------------------------------------------------------------------------
(* Reading a returned document.                                            *)

Returned == ret.kind = "svg"

Part(name) == SelectSeq(ret.nodes, LAMBDA n : n.part = name)

Bars == Part("bar")

K == Len(bp.values)

N == Len(bp.values[1])

(* The statistics of the data, computed on the integers.                   *)
DataValues == {bp.values[c][b] : c \in 1..K, b \in 1..N}

DataMax == CHOOSE m \in DataValues : \A v \in DataValues : v <= m

DataMin == CHOOSE m \in DataValues : \A v \in DataValues : m <= v

DataSum == SumSeq(Concat(bp.values))

-----------------------------------------------------------------------------
(* C3: under the Threshold layout (minC, lowC, highC, maxC) and with no     *)
(* override, the bar of category c and bin b, of value v, has colour maxC   *)
(* if v is the global maximum, else minC if v is the global minimum, else   *)
(* highC if v >= sum/(K*N), else lowC.  So every bar tied for the maximum   *)
(* has maxC, and all bars have maxC when all values are equal.              *)
C3_Rule(v) ==
    IF v = DataMax THEN "maxC"
    ELSE IF v = DataMin THEN "minC"
    ELSE IF v * (K * N) >= DataSum THEN "highC"
    ELSE "lowC"

C3_ThresholdLaw ==
    (Returned /\ bp.bar_color_variant.kind = "Threshold" /\ bp.bar_colors_override = <<>>)
        => /\ Len(Bars) = K * N
           /\ \A c \in 1..K : \A b \in 1..N :
                 Bars[(c - 1) * N + b].color = C3_Rule(bp.values[c][b])

(* A document of two series whose four bars take the four colours.        *)
C3_Witness ==
    /\ Returned
    /\ bp.bar_color_variant.kind = "Threshold"
    /\ K = 2
    /\ {Bars[i].color : i \in 1..Len(Bars)} = {"minC", "lowC", "highC", "maxC"}

-----------------------------------------------------------------------------
(* The layer a node belongs to, by the generator that wrote it.            *)
Layer(n) ==
    CASE n.part = "background" -> 0
      [] n.part \in {"bin_grid", "bin_tick", "bin_label"} -> 1
      [] n.part \in {"scale_label", "scale_grid", "scale_tick"} -> 2
      [] n.part = "text_left" -> 3
      [] n.part = "text_right" -> 4
      [] n.part = "text_top" -> 5
      [] n.part = "text_bottom" -> 6
      [] n.part = "svg_border" -> 7
      [] n.part = "bar" -> 8
      [] n.part \in {"legend_swatch", "legend_label"} -> 9
      [] n.part = "plot_border" -> 10
      [] n.part = "custom_line" -> 11

Layers == {Layer(ret.nodes[i]) : i \in 1..Len(ret.nodes)}

(* C1: in a returned document the nodes are in the layer order background,  *)
(* bin-marker axis, value axis, text left, right, top, bottom, canvas       *)
(* border, bars, legend, plot border; the background, the borders, the      *)
(* axes, the side texts and the legend are there exactly when configured,   *)
(* so every bar comes after every grid line and before every plot-border    *)
(* line.                                                                    *)
C1_LayerOrder ==
    Returned =>
       /\ \A i \in 1..Len(ret.nodes) : \A j \in 1..Len(ret.nodes) :
             i < j => Layer(ret.nodes[i]) <= Layer(ret.nodes[j])
       /\ \A i \in 1..Len(ret.nodes) : \A j \in 1..Len(ret.nodes) :
             /\ (ret.nodes[i].part \in {"bin_grid", "scale_grid"}
                   /\ ret.nodes[j].part = "bar") => i < j
             /\ (ret.nodes[i].part = "bar" /\ ret.nodes[j].part = "plot_border") => i < j
       /\ (0 \in Layers) = IsSome(bp.background_color)
       /\ (1 \in Layers) = IsSome(bp.bin_markers)
       /\ (2 \in Layers) = IsSome(bp.scale_range)
       /\ (3 \in Layers) = IsSome(bp.plot_text.left)
       /\ (4 \in Layers) = IsSome(bp.plot_text.right)
       /\ (5 \in Layers) = IsSome(bp.plot_text.top)
       /\ (6 \in Layers) = IsSome(bp.plot_text.bottom)
       /\ (7 \in Layers) = bp.show_window_border
       /\ 8 \in Layers
       /\ (9 \in Layers) = IsSome(bp.legend.categories)
       /\ (10 \in Layers) = bp.show_plot_border

(* A document with every layer and both grids.                             *)
C1_Witness ==
    /\ Returned
    /\ Layers = 0..10
    /\ Part("bin_grid") # <<>>
    /\ Part("scale_grid") # <<>>

-----------------------------------------------------------------------------
Rects == SelectSeq(ret.nodes, LAMBDA n : n.tag = "rect")

(* The bars are K * N, one for each pair, by category and then by bin.     *)
BarsInOrder ==
    /\ Len(Bars) = K * N
    /\ \A c \in 1..K : \A b \in 1..N :
          /\ Bars[(c - 1) * N + b].tag = "rect"
          /\ Bars[(c - 1) * N + b].cat = c - 1
          /\ Bars[(c - 1) * N + b].idx = b - 1
    /\ \A i \in 1..Len(Bars) : \A j \in 1..Len(Bars) :
          (Bars[i].cat = Bars[j].cat /\ i < j) => FLt(Bars[i].num[1], Bars[j].num[1])

BackgroundRects == IF IsSome(bp.background_color) THEN 1 ELSE 0

(* One swatch for each legend title that has a swatch colour.              *)
LegendRects ==
    IF ~IsSome(bp.legend.categories) THEN 0
    ELSE IF bp.bar_color_variant.kind # "Category" THEN Len(bp.legend.categories[1])
    ELSE IF Len(bp.legend.categories[1]) <= Len(bp.bar_color_variant.colors)
    THEN Len(bp.legend.categories[1])
    ELSE Len(bp.bar_color_variant.colors)

(* C2, as stated: a document has K * N bar rects, by category and then by   *)
(* bin, and its only other rect is the background rect, there iff a         *)
(* background colour is set.                                                *)
C2_AsStated ==
    Returned => (BarsInOrder /\ Len(Rects) = K * N + BackgroundRects)

(* C2: a document has K * N bar rects, one for each (category, bin), by     *)
(* category in added order and then by bin left to right; its other rects   *)
(* are the background rect, there iff a background colour is set, and one   *)
(* legend swatch for each legend entry drawn.                               *)
C2_BarRects ==
    Returned =>
       /\ BarsInOrder
       /\ Len(Rects) = K * N + BackgroundRects + LegendRects
       /\ Len(Part("background")) = BackgroundRects
       /\ Len(Part("legend_swatch")) = LegendRects

(* Two series of two bars with a background and a legend of two entries.   *)
C2_Witness ==
    /\ Returned
    /\ K = 2 /\ N = 2
    /\ Len(Bars) = 4
    /\ IsSome(bp.background_color)
    /\ Len(Rects) = 7

-----------------------------------------------------------------------------
ScaleLabels == Part("scale_label")

(* labels of the document to_svg returns for description d, as texts.      *)
LabelTextsOf(d) ==
    LET labels == SelectSeq(ToSvgResult(d, 1600, 900).ret.nodes,
                            LAMBDA n : n.part = "scale_label")
    IN  [i \in 1..Len(labels) |-> labels[i].text]

(* C6: a document drawn with a value scale (vmin, vmax, step), vmin < vmax  *)
(* and step > 0, has floor((vmax - vmin) / step) + 1 value-axis labels,     *)
(* whose texts are vmin, vmin + step, ... up to vmax, ascending; the        *)
(* labels are the same for every y-axis tick length, and with tick length   *)
(* 0 the labels are there and no tick segment is.                           *)
C6_ScaleLabels ==
    (/\ Returned /\ IsSome(bp.scale_range)
     /\ bp.scale_range[1][1] < bp.scale_range[1][2] /\ bp.scale_range[1][3] > 0)
    => /\ Len(ScaleLabels)
             = (bp.scale_range[1][2] - bp.scale_range[1][1]) \div bp.scale_range[1][3] + 1
       /\ \A i \in 1..Len(ScaleLabels) :
             /\ ScaleLabels[i].tag = "text"
             /\ ScaleLabels[i].text
                   = ToString(bp.scale_range[1][1] + (i - 1) * bp.scale_range[1][3])
             /\ bp.scale_range[1][1] + (i - 1) * bp.scale_range[1][3] <= bp.scale_range[1][2]
       /\ \A p \in TickLengths :
             LabelTextsOf([bp EXCEPT !.y_axis_tick_length = Some(p)])
                = [i \in 1..Len(ScaleLabels) |-> ScaleLabels[i].text]
       /\ bp.y_axis_tick_length = Some(0) => Part("scale_tick") = <<>>
       /\ UnwrapOr(bp.y_axis_tick_length, DEFAULT_TICK_LENGTH) # 0
             => Len(Part("scale_tick")) = Len(ScaleLabels)

(* A document with the labels -2, 0, 2 and, the tick length being 0, no tick. *)
C6_Witness ==
    /\ Returned
    /\ bp.scale_range = Some(<<-2, 3, 2>>)
    /\ bp.y_axis_tick_length = Some(0)
    /\ [i \in 1..Len(ScaleLabels) |-> ScaleLabels[i].text] = <<"-2", "0", "2">>
    /\ Part("scale_tick") = <<>>

-----------------------------------------------------------------------------
(* The bars to_svg draws for description d on a 1600 x 900 canvas.         *)
BarsOf(d) ==
    SelectSeq(ToSvgResult(d, 1600, 900).ret.nodes, LAMBDA n : n.part = "bar")

Renders(d) == ToSvgResult(d, 1600, 900).ret.kind = "svg"

Colors(bars) == [i \in 1..Len(bars) |-> bars[i].color]

(* Some override of the list names the bar (category, bar).               *)
Named(ovs, category, bar) ==
    \E i \in 1..Len(ovs) : ovs[i][1] = category /\ ovs[i][2] = bar

(* The step adds the override o to the description.                        *)
AddsOverride(o) ==
    bp' = [bp EXCEPT !.bar_colors_override = Append(@, o)]

(* Bars `after` are bars `before` with the colour of bar (c, b) replaced.  *)
OnlyRecolored(before, after, c, b, color) ==
    /\ Len(after) = Len(before)
    /\ \A i \in 1..Len(before) :
          after[i] = IF i = c * N + b + 1
                     THEN [before[i] EXCEPT !.color = color]
                     ELSE before[i]

(* C4, as stated: for (c, b) with c < K and b < N, adding the override      *)
(* (c, b, colour') makes bar (c, b) render with colour' and leaves the      *)
(* colour of every other bar and the geometry and order of all bars         *)
(* unchanged.                                                               *)
C4_AsStated ==
    [][\A o \in OverrideInputs :
          (AddsOverride(o) /\ o[1] < K /\ o[2] < N /\ Renders(bp))
              => OnlyRecolored(BarsOf(bp), BarsOf(bp'), o[1], o[2], o[3])]_vars

(* C4: for (c, b) with c < K and b < N that no override added before       *)
(* names, adding the override (c, b, colour') makes bar (c, b) render with  *)
(* colour' and leaves the colour of every other bar and the geometry and    *)
(* order of all bars unchanged.                                             *)
C4_OverrideFrame ==
    [][\A o \in OverrideInputs :
          (/\ AddsOverride(o) /\ o[1] < K /\ o[2] < N /\ Renders(bp)
           /\ ~Named(bp.bar_colors_override, o[1], o[2]))
              => OnlyRecolored(BarsOf(bp), BarsOf(bp'), o[1], o[2], o[3])]_vars

(* A document of two series of two bars where only bar (1, 1) is overridden. *)
C4_Witness ==
    /\ Returned
    /\ bp.bar_colors_override = <<<<1, 1, "Gold">>>>
    /\ K = 2
    /\ Colors(Bars) \in {<<"Teal", "Teal", "Teal", "Gold">>,
                         <<"Red", "Red", "Blue", "Gold">>,
                         <<"Cyan", "Navy", "Cyan", "Gold">>}

-----------------------------------------------------------------------------
(* C5: a bar named by several overrides takes the colour of the one added   *)
(* first, and adding once more an override already present changes no bar's *)
(* colour.                                                                  *)
C5_FirstOverrideWins ==
    Returned =>
       /\ \A c \in 1..K : \A b \in 1..N : \A i \in 1..Len(bp.bar_colors_override) :
             (/\ bp.bar_colors_override[i][1] = c - 1
              /\ bp.bar_colors_override[i][2] = b - 1
              /\ ~Named(SubSeq(bp.bar_colors_override, 1, i - 1), c - 1, b - 1))
                 => Bars[(c - 1) * N + b].color = bp.bar_colors_override[i][3]
       /\ \A i \in 1..Len(bp.bar_colors_override) :
             Colors(BarsOf([bp EXCEPT !.bar_colors_override =
                               Append(@, bp.bar_colors_override[i])]))
                = Colors(BarsOf(bp))

(* Two overrides name bar (0, 0); the document shows the first one's colour. *)
C5_Witness ==
    /\ Returned
    /\ bp.bar_colors_override = <<<<0, 0, "Gold">>, <<0, 0, "Pink">>>>
    /\ Bars[1].color = "Gold"

-----------------------------------------------------------------------------
(* C7: a to_svg call that returns a document changes the description only   *)
(* in its stored size; the document is the one a plot with the same         *)
(* configuration and no stored size returns for the same width and height;  *)
(* and a to_svg call right after another with the same arguments returns    *)
(* the same document, with no node of the earlier one added.                *)
C7_FunctionOfDescription ==
    [][/\ ret'.kind = "svg" =>
             /\ bp' = [bp EXCEPT !.size = Some(ret'.size)]
             /\ ret' = ToSvgResult([bp EXCEPT !.size = None],
                                   ret'.size[1], ret'.size[2]).ret
       /\ (ret.kind = "svg" /\ ret'.kind = "svg" /\ ret'.size = ret.size)
             => ret' = ret]_vars

(* A document drawn on the second canvas after overrides were configured,   *)
(* holding exactly the bars of the description.                             *)
C7_Witness ==
    /\ Returned
    /\ ret.size = <<400, 400>>
    /\ bp.bar_colors_override # <<>>
    /\ K = 2
    /\ Len(ret.nodes) = K * N

-----------------------------------------------------------------------------
(* C8: on a plot with no series, to_svg panics and returns no document, and *)
(* add_bar_color_override panics and records no override.                   *)
C8_EmptyPlotHalts ==
    bp.values = <<>> =>
       /\ ~Returned
       /\ \A size \in Canvases :
             /\ ToSvgResult(bp, size[1], size[2]).ret
                   = Panic("Can not generate plot without any values..")
             /\ ToSvgResult(bp, size[1], size[2]).bp = bp
       /\ bp.bar_colors_override = <<>>
       /\ bp.size = None

(* add_bar_color_override was called on a plot with no series.            *)
C8_Witness ==
    /\ bp.values = <<>>
    /\ ret = Panic("Can't override bar, because no bars (values) have been added yet.")

-----------------------------------------------------------------------------
(* The colour layout does not have the shape of the data.                  *)
LayoutMismatch ==
    \/ /\ bp.bar_color_variant.kind = "Category"
       /\ Len(bp.bar_color_variant.colors) # K
    \/ /\ bp.bar_color_variant.kind = "Indexed"
       /\ \/ Len(bp.bar_color_variant.matrix) # K
          \/ \E c \in 1..K : Len(bp.bar_color_variant.matrix[c]) # Len(bp.values[c])

(* C11: with a series stored, to_svg panics and leaves the description as   *)
(* it is, its size included, when the Category layout has not K colours or  *)
(* the Indexed layout has not K vectors or has a vector whose length is not *)
(* that of its series; when the shapes agree the layout has a colour for    *)
(* every (category, bin), no lookup panics, and each bar shows that colour. *)
C11_LayoutDimensions ==
    bp.values # <<>> =>
       IF LayoutMismatch
       THEN /\ ~Returned
            /\ \A size \in Canvases :
                  /\ ToSvgResult(bp, size[1], size[2]).ret.kind = "panic"
                  /\ ToSvgResult(bp, size[1], size[2]).ret.msg # "index out of bounds"
                  /\ ToSvgResult(bp, size[1], size[2]).bp = bp
       ELSE /\ ~(ret.kind = "panic" /\ ret.msg = "index out of bounds")
            /\ \A size \in Canvases : ToSvgResult(bp, size[1], size[2]).ret.kind = "svg"
            /\ bp.bar_color_variant.kind = "Category" =>
                  \A c \in 1..K : c \in DOMAIN bp.bar_color_variant.colors
            /\ bp.bar_color_variant.kind = "Indexed" =>
                  \A c \in 1..K : \A b \in 1..N :
                     /\ c \in DOMAIN bp.bar_color_variant.matrix
                     /\ b \in DOMAIN bp.bar_color_variant.matrix[c]
            /\ (Returned /\ bp.bar_color_variant.kind = "Category") =>
                  \A c \in 1..K : \A b \in 1..N :
                     Bars[(c - 1) * N + b].color = bp.bar_color_variant.colors[c]
            /\ (Returned /\ bp.bar_color_variant.kind = "Indexed") =>
                  \A c \in 1..K : \A b \in 1..N :
                     Bars[(c - 1) * N + b].color = bp.bar_color_variant.matrix[c][b]

(* to_svg panicked on an Indexed layout of K vectors, one of them shorter  *)
(* than its series.                                                        *)
C11_Witness ==
    /\ ret.kind = "panic"
    /\ K = 2 /\ N = 2
    /\ bp.bar_color_variant = Indexed(<<<<"Cyan", "Navy">>, <<"Lime">>>>)
    /\ bp.size = None

-----------------------------------------------------------------------------
InPercent(p) == 0 <= p /\ p <= 100

(* Every percentage the description holds is in 0..100.                    *)
PercentagesValid ==
    /\ IsSome(bp.plot_window_scale) => \A i \in 1..4 : InPercent(bp.plot_window_scale[1][i])
    /\ InPercent(bp.bin_gap)
    /\ InPercent(bp.bar_gap)
    /\ IsSome(bp.x_axis_tick_length) => InPercent(bp.x_axis_tick_length[1])
    /\ IsSome(bp.y_axis_tick_length) => InPercent(bp.y_axis_tick_length[1])
    /\ IsSome(bp.plot_text.left_offset) => InPercent(bp.plot_text.left_offset[1])
    /\ IsSome(bp.plot_text.right_offset) => InPercent(bp.plot_text.right_offset[1])
    /\ IsSome(bp.plot_text.top_offset) => InPercent(bp.plot_text.top_offset[1])
    /\ IsSome(bp.plot_text.bottom_offset) => InPercent(bp.plot_text.bottom_offset[1])
    /\ IsSome(bp.legend.position) =>
          InPercent(bp.legend.position[1][1]) /\ InPercent(bp.legend.position[1][2])

(* C12: no document is returned from a description that holds a percentage *)
(* below 0 or above 100.                                                    *)
C12_PercentagesChecked == Returned => PercentagesValid

-----------------------------------------------------------------------------
(* C13: no document is returned from a description whose value scale has   *)
(* step 0 or min >= max.                                                    *)
C13_ScaleChecked ==
    (Returned /\ IsSome(bp.scale_range))
       => (bp.scale_range[1][3] # 0 /\ bp.scale_range[1][1] < bp.scale_range[1][2])

-----------------------------------------------------------------------------
(* C14: in a document drawn with no plot window set, the plot box is the    *)
(* canvas box (0, W, 0, H): every bar stands on the lower edge y = H of the *)
(* canvas, starts at or below its upper edge, and lies between x = 0 and    *)
(* x = W.                                                                   *)
C14_DefaultPlotBox ==
    (Returned /\ bp.plot_window_scale = None) =>
       \A i \in 1..Len(Bars) :
          /\ FAdd(Bars[i].num[2], Bars[i].num[4]) = F(ret.size[2])
          /\ FLe(F(0), Bars[i].num[2])
          /\ FLe(F(0), Bars[i].num[1])
          /\ FLe(FAdd(Bars[i].num[1], Bars[i].num[3]), F(ret.size[1]))

-----------------------------------------------------------------------------
(* C15: with a series stored and no plot window set, to_svg returns a       *)
(* document on every canvas, also when a scale range is set.                *)
C15_NoPlotWindowTolerated ==
    (bp.values # <<>> /\ bp.plot_window_scale = None) =>
       /\ ret.kind # "panic"
       /\ \A size \in Canvases : ToSvgResult(bp, size[1], size[2]).ret.kind = "svg"

-----------------------------------------------------------------------------
(* length * size / 100                                                     *)
PlotLength(length, size) == FDiv(FMul(F(length), F(size)), F(100))

(* (length - length * size / 100) * offset / 100                           *)
PlotPad(length, size, offset) ==
    FDiv(FMul(FSub(F(length), PlotLength(length, size)), F(offset)), F(100))

(* The plot box (x1, x2, y1, y2) the claim gives for the description.      *)
PlotBox ==
    <<PlotPad(ret.size[1], bp.plot_window_scale[1][1], bp.plot_window_scale[1][2]),
      FAdd(PlotPad(ret.size[1], bp.plot_window_scale[1][1], bp.plot_window_scale[1][2]),
           PlotLength(ret.size[1], bp.plot_window_scale[1][1])),
      PlotPad(ret.size[2], bp.plot_window_scale[1][3], bp.plot_window_scale[1][4]),
      FAdd(PlotPad(ret.size[2], bp.plot_window_scale[1][3], bp.plot_window_scale[1][4]),
           PlotLength(ret.size[2], bp.plot_window_scale[1][3]))>>

(* The end points (x1, x2, y1, y2) of the i-th line of the plot border.    *)
BorderLine(i) == SubSeq(Part("plot_border")[i].num, 1, 4)

(* C16: in a document drawn with plot-window percentages in 0..100 the plot *)
(* box, which the plot border traces and on whose lower edge the bars       *)
(* stand, is (leftPad, leftPad + W * xSize / 100, topPad, topPad + H *      *)
(* ySize / 100) with leftPad = (W - W * xSize / 100) * xOffset / 100 and    *)
(* topPad = (H - H * ySize / 100) * yOffset / 100, and it lies inside the   *)
(* canvas.                                                                  *)
C16_PlotBoxInCanvas ==
    (Returned /\ IsSome(bp.plot_window_scale) /\ PercentagesValid) =>
       /\ FLe(F(0), PlotBox[1]) /\ FLe(PlotBox[1], PlotBox[2])
       /\ FLe(PlotBox[2], F(ret.size[1]))
       /\ FLe(F(0), PlotBox[3]) /\ FLe(PlotBox[3], PlotBox[4])
       /\ FLe(PlotBox[4], F(ret.size[2]))
       /\ \A i \in 1..Len(Bars) : FAdd(Bars[i].num[2], Bars[i].num[4]) = PlotBox[4]
       /\ bp.show_plot_border =>
             /\ Len(Part("plot_border")) = 4
             /\ BorderLine(1) = <<PlotBox[1], PlotBox[1], PlotBox[3], PlotBox[4]>>
             /\ BorderLine(2) = <<PlotBox[1], PlotBox[2], PlotBox[3], PlotBox[3]>>
             /\ BorderLine(3) = <<PlotBox[2], PlotBox[2], PlotBox[3], PlotBox[4]>>
             /\ BorderLine(4) = <<PlotBox[1], PlotBox[2], PlotBox[4], PlotBox[4]>>

(* A 1600 x 900 document with the plot window (35, 100, 35, 35) and its    *)
(* border: the box reaches the right edge of the canvas.                   *)
C16_Witness ==
    /\ Returned
    /\ ret.size = <<1600, 900>>
    /\ bp.plot_window_scale = Some(<<35, 100, 35, 35>>)
    /\ bp.show_plot_border
    /\ BorderLine(3) = <<F(1600), F(1600), <<819, 4>>, <<2079, 4>>>>

-----------------------------------------------------------------------------
M == Len(bp.bin_markers[1])

Nth == (N + (N % M)) \div M

BinLabels == Part("bin_label")

(* x of bin i: the bins divide the canvas width, the plot window being the  *)
(* default one, and the marker stands left or in the middle of its bin.     *)
BinX(i) ==
    FAdd(FMul(FDiv(F(ret.size[1]), F(N)), F(i)),
         IF bp.bin_marker_position = "Left" THEN F(0)
         ELSE FDiv(FDiv(F(ret.size[1]), F(N)), F(2)))

(* A tick at each of the N bins unless the tick length is 0, and a grid     *)
(* line at each of them iff vertical lines are shown.                       *)
TicksAtAllBins ==
    /\ Len(Part("bin_tick"))
          = IF UnwrapOr(bp.x_axis_tick_length, DEFAULT_TICK_LENGTH) = 0 THEN 0 ELSE N
    /\ \A i \in 1..Len(Part("bin_tick")) :
          /\ Part("bin_tick")[i].tag = "line"
          /\ Part("bin_tick")[i].num[1] = BinX(i - 1)
          /\ Part("bin_tick")[i].num[2] = BinX(i - 1)
    /\ Len(Part("bin_grid")) = IF bp.show_vertical_lines THEN N ELSE 0
    /\ \A i \in 1..Len(Part("bin_grid")) :
          /\ Part("bin_grid")[i].tag = "line"
          /\ Part("bin_grid")[i].num[1] = BinX(i - 1)

(* The j-th label drawn is marker j - 1, on bin (j - 1) * nth.             *)
LabelsOnNthBins ==
    \A j \in 1..Len(BinLabels) :
       /\ BinLabels[j].tag = "text"
       /\ BinLabels[j].text = bp.bin_markers[1][j]
       /\ BinLabels[j].idx = (j - 1) * Nth
       /\ BinLabels[j].num[1] = BinX((j - 1) * Nth)

(* C17, as stated: with 1 <= M < N markers, ticks (unless the tick length   *)
(* is 0) and grid lines (if shown) are at all N bins, and exactly M labels  *)
(* are drawn, marker k on bin k * nth, nth = (N + (N mod M)) / M.           *)
C17_AsStated ==
    (Returned /\ IsSome(bp.bin_markers) /\ 1 <= M /\ M < N) =>
       /\ TicksAtAllBins
       /\ Len(BinLabels) = M
       /\ LabelsOnNthBins

(* C17: with 1 <= M < N markers, ticks (unless the tick length is 0) and    *)
(* grid lines (if shown) are at all N bins, and marker k is drawn on bin    *)
(* k * nth, nth = (N + (N mod M)) / M, for every k in 0..M-1 with           *)
(* k * nth < N: at most M labels, and fewer when (M - 1) * nth >= N.        *)
C17_MarkerDownsampling ==
    (Returned /\ IsSome(bp.bin_markers) /\ 1 <= M /\ M < N) =>
       /\ TicksAtAllBins
       /\ Len(BinLabels) = Cardinality({k \in 0..(M - 1) : k * Nth < N})
       /\ Len(BinLabels) <= M
       /\ LabelsOnNthBins

(* 5 bins and 2 markers: ticks at the 5 bins, labels on bins 0 and 3.      *)
C17_Witness ==
    /\ Returned
    /\ N = 5
    /\ IsSome(bp.bin_markers) /\ M = 2
    /\ Len(Part("bin_tick")) = 5
    /\ [j \in 1..Len(BinLabels) |-> BinLabels[j].idx] = <<0, 3>>

-----------------------------------------------------------------------------
(* C18: when every value is positive, to_svg draws the same bars, with the  *)
(* same x, y, width and height, with the negative-down flag as without it,  *)
(* with a scale set or not.                                                 *)
C18_FlagIdleOnPositiveData ==
    (bp.values # <<>> /\ \A v \in DataValues : v > 0) =>
       /\ Renders([bp EXCEPT !.negative_bars_go_down = TRUE])
             = Renders([bp EXCEPT !.negative_bars_go_down = FALSE])
       /\ BarsOf([bp EXCEPT !.negative_bars_go_down = TRUE])
             = BarsOf([bp EXCEPT !.negative_bars_go_down = FALSE])

(* A document of positive data drawn with the flag and a scale from 1.     *)
C18_Witness ==
    /\ Returned
    /\ bp.negative_bars_go_down
    /\ bp.values = <<<<1, 3>>, <<1, 3>>>>
    /\ bp.scale_range = Some(<<1, 4, 1>>)
    /\ Len(Bars) = 4

-----------------------------------------------------------------------------
(* ph / range, for the scale and the plot window of the description.       *)
ScaleUnit ==
    FDiv(FSub(PlotBox[4], PlotBox[3]),
         F(bp.scale_range[1][2] - bp.scale_range[1][1]))

(* y0 = y2 + vmin * ph / range                                             *)
ZeroY == FAdd(PlotBox[4], FMul(F(bp.scale_range[1][1]), ScaleUnit))

(* C19: in a document drawn with the negative-down flag, data with a        *)
(* negative value and a scale whose minimum is below 0, a bar of negative   *)
(* value v has its upper edge at y0 = y2 + vmin * ph / range and height     *)
(* |v| * ph / range, a bar of value v >= 0 has its lower edge at y0 and     *)
(* height v * ph / range, and the scale tick of value 0, if there is one,   *)
(* is drawn at y0.                                                          *)
C19_BarsAnchoredAtZero ==
    (/\ Returned /\ bp.negative_bars_go_down /\ IsSome(bp.scale_range)
     /\ bp.scale_range[1][1] < 0 /\ \E v \in DataValues : v < 0) =>
       /\ \A c \in 1..K : \A b \in 1..N :
             IF bp.values[c][b] < 0
             THEN /\ Bars[(c - 1) * N + b].num[2] = ZeroY
                  /\ Bars[(c - 1) * N + b].num[4] = FMul(F(-bp.values[c][b]), ScaleUnit)
             ELSE /\ FAdd(Bars[(c - 1) * N + b].num[2], Bars[(c - 1) * N + b].num[4]) = ZeroY
                  /\ Bars[(c - 1) * N + b].num[4] = FMul(F(bp.values[c][b]), ScaleUnit)
       /\ Len(Part("scale_tick")) = Len(ScaleLabels)
       /\ \A k \in 1..Len(ScaleLabels) :
             ScaleLabels[k].text = "0" =>
                /\ Part("scale_tick")[k].num[3] = ZeroY
                /\ Part("scale_tick")[k].num[4] = ZeroY

(* A document with the flag, the scale (-2, 4, 2) and the series (-2, 3):   *)
(* the bar of -2 hangs from y0 and the bar of 3 stands on it.               *)
C19_Witness ==
    /\ Returned
    /\ bp.negative_bars_go_down
    /\ bp.scale_range = Some(<<-2, 4, 2>>)
    /\ bp.values = <<<<-2, 3>>>>
    /\ Bars[1].num[2] = ZeroY
    /\ FAdd(Bars[2].num[2], Bars[2].num[4]) = ZeroY
    /\ \E k \in 1..Len(ScaleLabels) : ScaleLabels[k].text = "0"

-----------------------------------------------------------------------------
(* fs = sqrt(W * H) / 50 * font_size / 100, for the document returned.     *)
BaseFontSize ==
    FMul(FDiv(FSqrt(F(ret.size[1] * ret.size[2])), F(50)),
         FDiv(F(bp.font_size), F(100)))

(* The x and the y coordinates a node holds.                               *)
XsOf(n) ==
    CASE n.tag = "rect" -> {n.num[1], FAdd(n.num[1], n.num[3])}
      [] n.tag = "line" -> {n.num[1], n.num[2]}
      [] OTHER -> {n.num[1]}

YsOf(n) ==
    CASE n.tag = "rect" -> {n.num[2], FAdd(n.num[2], n.num[4])}
      [] n.tag = "line" -> {n.num[3], n.num[4]}
      [] OTHER -> {n.num[2]}

Within(v, length) ==
    FLe(FNeg(BaseFontSize), v) /\ FLe(v, FAdd(F(length), BaseFontSize))

(* C20: in a returned document every x coordinate lies in [-fs, W + fs] and *)
(* every y coordinate in [-fs, H + fs].                                     *)
C20_CanvasContainment ==
    Returned =>
       \A i \in 1..Len(ret.nodes) :
          /\ \A x \in XsOf(ret.nodes[i]) : Within(x, ret.size[1])
          /\ \A y \in YsOf(ret.nodes[i]) : Within(y, ret.size[2])

-----------------------------------------------------------------------------
(* The legend of a returned document: its nodes, its titles, the anchor of  *)
(* its first entry and the colour of swatch i.                              *)
LegendNodes == SelectSeq(ret.nodes, LAMBDA n : Layer(n) = 9)

Titles == bp.legend.categories[1]

LegendAt == UnwrapOr(bp.legend.position, DEFAULT_LEGEND_POSITION)

LegendX == FDiv(F(ret.size[1] * LegendAt[1]), F(100))

LegendY(i) == FAdd(FDiv(F(ret.size[2] * LegendAt[2]), F(100)), FMul(F(i - 1), FMul(BaseFontSize, <<6, 5>>)))

SwatchColor(i) ==
    IF bp.bar_color_variant.kind = "Category" THEN bp.bar_color_variant.colors[i]
    ELSE DEFAULT_BAR_COLOR

(* Entry i of the legend: a swatch of side fs with its corner at            *)
(* (x - 1.5 fs, y - fs), then the title at (x, y - 0.15 fs).               *)
LegendEntry(i) ==
    /\ LegendNodes[2 * i - 1].tag = "rect"
    /\ LegendNodes[2 * i - 1].color = SwatchColor(i)
    /\ LegendNodes[2 * i - 1].num = <<FSub(LegendX, FMul(BaseFontSize, <<3, 2>>)), FSub(LegendY(i), BaseFontSize), BaseFontSize, BaseFontSize, F(1)>>
    /\ LegendNodes[2 * i].tag = "text"
    /\ LegendNodes[2 * i].text = Titles[i]
    /\ LegendNodes[2 * i].anchor = "start"
    /\ LegendNodes[2 * i].num = <<LegendX, FSub(LegendY(i), FMul(BaseFontSize, <<3, 20>>)), BaseFontSize>>

(* The titles that get an entry: under the Category layout the titles are   *)
(* paired with the colours, and the pairing ends with the shorter list.     *)
LegendEntries ==
    IF bp.bar_color_variant.kind = "Category" /\ Len(bp.bar_color_variant.colors) < Len(Titles)
    THEN Len(bp.bar_color_variant.colors)
    ELSE Len(Titles)

(* C21, as stated: when a legend is set, a document has one swatch followed *)
(* by one label for each title, in title order, swatch i in colour i of the *)
(* Category layout or else in the default bar colour, whatever the          *)
(* overrides, the first entry at (W px/100, H py/100) and each next one     *)
(* 1.2 fs lower.                                                            *)
C21_AsStated ==
    (Returned /\ IsSome(bp.legend.categories))
        => /\ Len(LegendNodes) = 2 * Len(Titles)
           /\ \A i \in 1..Len(Titles) : LegendEntry(i)

(* C21: when a legend is set, a document has one swatch followed by one     *)
(* label for each of the first n titles, in title order, where n is the     *)
(* number of titles, or the number of Category colours if that layout is    *)
(* active and has fewer colours than there are titles; swatch i has colour  *)
(* i of the Category layout or else the default bar colour, whatever the    *)
(* overrides, the first entry is at (W px/100, H py/100) and each next one  *)
(* 1.2 fs lower.                                                            *)
C21_LegendEntries ==
    (Returned /\ IsSome(bp.legend.categories))
        => /\ Len(LegendNodes) = 2 * LegendEntries
           /\ \A i \in 1..LegendEntries : LegendEntry(i)

(* A document of two series in Red and Blue with an override on the first   *)
(* bar and a legend of two titles at a set position.                        *)
C21_Witness ==
    /\ Returned
    /\ bp.bar_color_variant.kind = "Category"
    /\ bp.bar_color_variant.colors = <<"Red", "Blue">>
    /\ bp.bar_colors_override # <<>>
    /\ IsSome(bp.legend.categories) /\ Titles = <<"a", "b">>
    /\ IsSome(bp.legend.position)
    /\ Len(LegendNodes) = 4
    /\ Bars[1].color = "Gold"

-----------------------------------------------------------------------------
(* The plot box (x1, x2, y1, y2) of the description: the box of the plot    *)
(* window, or the canvas box when no plot window is set.                    *)
PlotBoxOrCanvas ==
    IF IsSome(bp.plot_window_scale) THEN PlotBox
    ELSE <<F(0), F(ret.size[1]), F(0), F(ret.size[2])>>

CustomLines == Part("custom_line")

(* The end points (x1, x2, y1, y2) of a vertical line at p% of the plot box. *)
VerticalLineAt(p) ==
    LET x == FAdd(PlotBoxOrCanvas[1], FDiv(FMul(FSub(PlotBoxOrCanvas[2], PlotBoxOrCanvas[1]), p), F(100)))
    IN  <<x, x, PlotBoxOrCanvas[3], PlotBoxOrCanvas[4]>>

(* C22: a document is the document of the same description without custom  *)
(* lines, plot border included, followed by one line primitive for each     *)
(* vertical custom line, in insertion order, each in its colour at          *)
(* x = x1 + (x2 - x1) * p/100 and spanning y1 to y2 of the plot box.        *)
C22_CustomLines ==
    Returned =>
       /\ ret.nodes = Render([bp EXCEPT !.custom_lines = <<>>]).nodes \o CustomLines
       /\ Len(CustomLines) = Len(bp.custom_lines)
       /\ \A i \in 1..Len(CustomLines) :
             /\ CustomLines[i].tag = "line"
             /\ CustomLines[i].color = bp.custom_lines[i].color
             /\ SubSeq(CustomLines[i].num, 1, 4) = VerticalLineAt(bp.custom_lines[i].percent)

-----------------------------------------------------------------------------
(* The category colours and the colour vectors a description holds.        *)
CategoryHeld(d) ==
    IF d.bar_color_variant.kind = "Category" THEN d.bar_color_variant.colors ELSE <<>>

IndexedHeld(d) ==
    IF d.bar_color_variant.kind = "Indexed" THEN d.bar_color_variant.matrix ELSE <<>>

(* A list is kept as it is or gets one more entry at its end.              *)
KeptOrExtended(before, after) ==
    \/ after = before
    \/ Len(after) = Len(before) + 1 /\ SubSeq(after, 1, Len(before)) = before

(* An add_ call that returns puts its argument at the end of its list.     *)
AddAppends ==
    /\ \A v \in CallSeries :
          (AddValues(v) /\ ret'.kind = "unit") => bp'.values = Append(bp.values, v)
    /\ \A color \in CategoryColors :
          AddBarColorsByCategory(color) => CategoryHeld(bp') = Append(CategoryHeld(bp), color)
    /\ \A colors \in IndexedVectors :
          AddBarColorsFromVec(colors) => IndexedHeld(bp') = Append(IndexedHeld(bp), colors)
    /\ (AddBarColorOverride(0, 0, "Gold") /\ ret'.kind = "unit")
          => bp'.bar_colors_override = Append(bp.bar_colors_override, <<0, 0, "Gold">>)

(* A set_ call leaves the description, and so the rendering, of a plot on  *)
(* which the method was not called before.                                 *)
SetOverrides ==
    /\ \A color \in UniformColors :
          SetBarColorsByUniform(color) =>
             /\ bp' = [[bp EXCEPT !.bar_color_variant = BarColorsDefault] EXCEPT !.bar_color_variant = Uniform(color)]
             /\ ToSvgResult(bp', 1600, 900) = ToSvgResult([bp EXCEPT !.bar_color_variant = Uniform(color)], 1600, 900)
    /\ \A m \in CallMarkers :
          SetBinMarkers(m) =>
             /\ bp' = [[bp EXCEPT !.bin_markers = None] EXCEPT !.bin_markers = Some(m)]
             /\ ToSvgResult(bp', 1600, 900) = ToSvgResult([bp EXCEPT !.bin_markers = Some(m)], 1600, 900)

(* C23, as stated: an add_ call puts its argument at the end of its list    *)
(* (series, category colours, colour vectors, overrides) and no call        *)
(* removes an entry, so after n calls the list holds the n arguments in     *)
(* call order; a set_ call leaves only its own arguments in effect.         *)
C23_AsStated ==
    [][/\ AddAppends
       /\ SetOverrides
       /\ KeptOrExtended(bp.values, bp'.values)
       /\ KeptOrExtended(bp.bar_colors_override, bp'.bar_colors_override)
       /\ KeptOrExtended(CategoryHeld(bp), CategoryHeld(bp'))
       /\ KeptOrExtended(IndexedHeld(bp), IndexedHeld(bp'))]_vars

(* C23: an add_ call that returns puts its argument at the end of its list; *)
(* no call removes a series or an override; the category colours and the    *)
(* colour vectors are removed, all at once, by exactly the calls that set   *)
(* a layout of another kind, so they are the arguments of the add_ calls    *)
(* made since the layout last became Category or Indexed; a set_ call       *)
(* leaves only its own arguments in effect.                                 *)
C23_AddAndSet ==
    [][/\ AddAppends
       /\ SetOverrides
       /\ KeptOrExtended(bp.values, bp'.values)
       /\ KeptOrExtended(bp.bar_colors_override, bp'.bar_colors_override)
       /\ IF bp'.bar_color_variant.kind = "Category" \/ bp.bar_color_variant.kind # "Category"
          THEN KeptOrExtended(CategoryHeld(bp), CategoryHeld(bp'))
          ELSE CategoryHeld(bp') = <<>>
       /\ IF bp'.bar_color_variant.kind = "Indexed" \/ bp.bar_color_variant.kind # "Indexed"
          THEN KeptOrExtended(IndexedHeld(bp), IndexedHeld(bp'))
          ELSE IndexedHeld(bp') = <<>>]_vars

(* Two series, two category colours in call order, two overrides and the   *)
(* markers set after a document was drawn.                                  *)
C23_Witness ==
    /\ Len(bp.values) = 2
    /\ bp.bar_color_variant = Category(<<"Blue", "Red">>)
    /\ Len(bp.bar_colors_override) = 2
    /\ bp.bin_markers = Some(<<"c">>)
    /\ IsSome(bp.size)

-----------------------------------------------------------------------------
(* (v - min) * ph / (max - min), on the plot box of the description.        *)
AutoHeight(v) ==
    FDiv(FMul(F(v - DataMin), FSub(PlotBoxOrCanvas[4], PlotBoxOrCanvas[3])), F(DataMax - DataMin))

(* C24: with no scale range, the negative-down flag off and data with       *)
(* min < max, every bar of value v stands on the floor y2 of the plot box   *)
(* with height (v - min) * ph / (max - min): the bars of the maximum have   *)
(* the height of the plot box and their top at y1, the bars of the minimum  *)
(* have height 0, and the others a height strictly between.                 *)
C24_AutoScale ==
    (Returned /\ bp.scale_range = None /\ ~bp.negative_bars_go_down /\ DataMin < DataMax) =>
       \A c \in 1..K : \A b \in 1..N :
          /\ Bars[(c - 1) * N + b].num[4] = AutoHeight(bp.values[c][b])
          /\ FAdd(Bars[(c - 1) * N + b].num[2], Bars[(c - 1) * N + b].num[4]) = PlotBoxOrCanvas[4]
          /\ bp.values[c][b] = DataMax =>
                /\ Bars[(c - 1) * N + b].num[2] = PlotBoxOrCanvas[3]
                /\ Bars[(c - 1) * N + b].num[4] = FSub(PlotBoxOrCanvas[4], PlotBoxOrCanvas[3])
          /\ bp.values[c][b] = DataMin => Bars[(c - 1) * N + b].num[4] = F(0)
          /\ bp.values[c][b] \notin {DataMin, DataMax} =>
                /\ FLe(F(0), Bars[(c - 1) * N + b].num[4])
                /\ Bars[(c - 1) * N + b].num[4] # F(0)
                /\ FLe(Bars[(c - 1) * N + b].num[4], FSub(PlotBoxOrCanvas[4], PlotBoxOrCanvas[3]))
                /\ Bars[(c - 1) * N + b].num[4] # FSub(PlotBoxOrCanvas[4], PlotBoxOrCanvas[3])

-----------------------------------------------------------------------------
(* The nodes of the bin-marker axis and of the value axis, as emitted.      *)
BinAxis == SelectSeq(ret.nodes, LAMBDA n : Layer(n) = 1)

ValueAxis == SelectSeq(ret.nodes, LAMBDA n : Layer(n) = 2)

(* The nodes of an axis come tick position by tick position, and those of   *)
(* one position in the order of the parts in `order`.                       *)
Place(order, part) == CHOOSE r \in 1..Len(order) : order[r] = part

ByPositionThen(axis, order) ==
    \A i \in 1..Len(axis) : \A j \in 1..Len(axis) :
       i < j => \/ axis[i].idx < axis[j].idx
                \/ /\ axis[i].idx = axis[j].idx
                   /\ Place(order, axis[i].part) < Place(order, axis[j].part)

(* The parts at the positions 0 .. count - 1 of an axis: the grid line if   *)
(* enabled, the tick if the tick length is not 0, the label if every        *)
(* position has one.                                                        *)
PartsPresent(axis, count, grid, gridOn, tick, tickLength, label, labelOn) ==
    \A k \in 0..(count - 1) :
       /\ (\E i \in 1..Len(axis) : axis[i].idx = k /\ axis[i].part = grid) = gridOn
       /\ (\E i \in 1..Len(axis) : axis[i].idx = k /\ axis[i].part = tick) = (tickLength # 0)
       /\ labelOn => \E i \in 1..Len(axis) : axis[i].idx = k /\ axis[i].part = label

XTick == UnwrapOr(bp.x_axis_tick_length, DEFAULT_TICK_LENGTH)

YTick == UnwrapOr(bp.y_axis_tick_length, DEFAULT_TICK_LENGTH)

ScaleTicks == (bp.scale_range[1][2] - bp.scale_range[1][1]) \div bp.scale_range[1][3] + 1

(* C25, as stated: on the bin-marker axis and on the value axis alike, the  *)
(* elements of one tick position are emitted in the order grid line (if     *)
(* enabled), tick (if the tick length is not 0), label.                     *)
C25_AsStated ==
    Returned =>
       /\ ByPositionThen(BinAxis, <<"bin_grid", "bin_tick", "bin_label">>)
       /\ ByPositionThen(ValueAxis, <<"scale_grid", "scale_tick", "scale_label">>)

(* C25: the elements of one tick position are emitted, on the bin-marker    *)
(* axis, in the order grid line (if enabled), tick (if the tick length is   *)
(* not 0), label, and on the value axis in the order label, grid line (if   *)
(* enabled), tick (if the tick length is not 0).                            *)
C25_TickElementOrder ==
    Returned =>
       /\ ByPositionThen(BinAxis, <<"bin_grid", "bin_tick", "bin_label">>)
       /\ ByPositionThen(ValueAxis, <<"scale_label", "scale_grid", "scale_tick">>)
       /\ IsSome(bp.bin_markers) =>
             PartsPresent(BinAxis, N, "bin_grid", bp.show_vertical_lines, "bin_tick", XTick, "bin_label", M = N)
       /\ IsSome(bp.scale_range) =>
             PartsPresent(ValueAxis, ScaleTicks, "scale_grid", bp.show_horizontal_lines, "scale_tick", YTick, "scale_label", TRUE)

(* A document with both axes, both grids and ticks: three elements at each  *)
(* of the two bins and of the three scale values.                           *)
C25_Witness ==
    /\ Returned
    /\ bp.show_vertical_lines /\ bp.show_horizontal_lines
    /\ XTick # 0 /\ YTick # 0
    /\ Len(BinAxis) = 6
    /\ Len(ValueAxis) = 9

-----------------------------------------------------------------------------
(* C26: with the bin-marker position Left and M = N + 1 markers, a document *)
(* has N + 1 marker labels, marker i at x = x1 + i * (x2 - x1) / N for      *)
(* every i in 0..N, the last one at the right edge x2 of the plot box.      *)
C26_ExtraMarkerAtRightEdge ==
    (Returned /\ IsSome(bp.bin_markers) /\ bp.bin_marker_position = "Left" /\ M = N + 1) =>
       /\ Len(BinLabels) = N + 1
       /\ \A i \in 0..N :
             /\ BinLabels[i + 1].text = bp.bin_markers[1][i + 1]
             /\ BinLabels[i + 1].num[1] = BinX(i)

-----------------------------------------------------------------------------
(* bw = (x2 - x1) / N, sw = (bw - bw * binGap/100) / K, rm = sw * barGap/100 *)
BinWidth == FDiv(FSub(PlotBoxOrCanvas[2], PlotBoxOrCanvas[1]), F(N))

SlotWidth == FDiv(FSub(BinWidth, FDiv(FMul(BinWidth, F(bp.bin_gap)), F(100))), F(K))

SlotMargin == FDiv(FMul(SlotWidth, F(bp.bar_gap)), F(100))

(* The bar of category c and bin b, both counted from 0.                    *)
Bar(c, b) == Bars[c * N + b + 1]

BarLeft(c, b) == Bar(c, b).num[1]

BarRight(c, b) == FAdd(Bar(c, b).num[1], Bar(c, b).num[3])

(* C27: with the bin gap and the bar gap in 0..100, every one of the K * N  *)
(* bars is emitted with the width w = sw - rm >= 0, which is 0 when the bin *)
(* gap or the bar gap is 100; the extent [x, x + w] of bar (c, b) lies in   *)
(* the interval [x1 + bw * b, x1 + bw * (b + 1)] of its bin; and of two     *)
(* bars of one bin the one of the earlier category ends where or before     *)
(* the other begins.                                                        *)
C27_BarExtents ==
    (Returned /\ InPercent(bp.bin_gap) /\ InPercent(bp.bar_gap)) =>
       /\ Len(Bars) = K * N
       /\ \A c \in 0..(K - 1) : \A b \in 0..(N - 1) :
             /\ Bar(c, b).num[3] = FSub(SlotWidth, SlotMargin)
             /\ FLe(F(0), Bar(c, b).num[3])
             /\ (bp.bin_gap = 100 \/ bp.bar_gap = 100) => Bar(c, b).num[3] = F(0)
             /\ FLe(FAdd(PlotBoxOrCanvas[1], FMul(BinWidth, F(b))), BarLeft(c, b))
             /\ FLe(BarRight(c, b), FAdd(PlotBoxOrCanvas[1], FMul(BinWidth, F(b + 1))))
             /\ \A c2 \in 0..(K - 1) : c < c2 => FLe(BarRight(c, b), BarLeft(c2, b))

(* Two series of two bins with both gaps at 50 percent in the plot window,  *)
(* and bars of positive width.                                              *)
C27_Witness ==
    /\ Returned
    /\ K = 2 /\ N = 2
    /\ bp.bin_gap = 50 /\ bp.bar_gap = 50
    /\ IsSome(bp.plot_window_scale)
    /\ Bar(1, 1).num[3] # F(0)
    /\ BarRight(0, 1) # BarLeft(1, 1)

-----------------------------------------------------------------------------
(* The y of the k-th tick of the value axis, read from its label, which is  *)
(* written fs/3.5 below it.                                                 *)
TickY(k) == FSub(ScaleLabels[k].num[2], FDiv(BaseFontSize, <<7, 2>>))

(* The value of the k-th tick: vmin + (k - 1) * step.                       *)
TickValue(k) == bp.scale_range[1][1] + (k - 1) * bp.scale_range[1][3]

(* The y of the upper edge of a bar of value n with the negative-down flag  *)
(* off: y2 - (n - vmin) * ph / range.                                       *)
BarTopY(n) == FSub(PlotBoxOrCanvas[4], FMul(F(n - bp.scale_range[1][1]), ScaleUnit))

(* C28: in a document drawn with a scale (vmin, vmax, step), vmin < vmax,   *)
(* and the negative-down flag off, the tick of value n is drawn at the y of *)
(* the upper edge of a bar of value n, every bar of value n has its upper   *)
(* edge there, the tick of vmin lies on the floor y2 of the plot box and    *)
(* every tick lies between y1 and y2.                                       *)
C28_TicksMatchBars ==
    (/\ Returned /\ IsSome(bp.scale_range) /\ IsSome(bp.plot_window_scale)
     /\ bp.scale_range[1][1] < bp.scale_range[1][2] /\ ~bp.negative_bars_go_down) =>
       \A k \in 1..Len(ScaleLabels) :
          /\ TickY(k) = BarTopY(TickValue(k))
          /\ \A c \in 0..(K - 1) : \A b \in 0..(N - 1) :
                bp.values[c + 1][b + 1] = TickValue(k) => Bar(c, b).num[2] = TickY(k)
          /\ k = 1 => TickY(k) = PlotBoxOrCanvas[4]
          /\ FLe(PlotBoxOrCanvas[3], TickY(k)) /\ FLe(TickY(k), PlotBoxOrCanvas[4])

-----------------------------------------------------------------------------
(* The number of marker labels of a document.                               *)
LabelCount(r) == Len(SelectSeq(r.nodes, LAMBDA n : n.part = "bin_label"))

(* C29: with a series of N >= 1 bins and a list of M markers set, to_svg    *)
(* returns a document with at most min(M, N) marker labels for every        *)
(* M >= 1, also when M > N or M > 2 * N, and it halts when M = 0.           *)
C29_MarkerCountTolerated ==
    (bp.values # <<>> /\ IsSome(bp.bin_markers)) =>
       IF M >= 1
       THEN /\ ToSvgResult(bp, 1600, 900).ret.kind = "svg"
            /\ LabelCount(ToSvgResult(bp, 1600, 900).ret) <= M
            /\ LabelCount(ToSvgResult(bp, 1600, 900).ret) <= N
       ELSE ToSvgResult(bp, 1600, 900).ret.kind = "panic"

-----------------------------------------------------------------------------
(* The description holds one layout, of one of the four kinds.              *)
OneLayout ==
    CASE bp.bar_color_variant.kind = "Uniform" ->
            Len(bp.bar_color_variant.colors) = 1 /\ bp.bar_color_variant.matrix = <<>>
      [] bp.bar_color_variant.kind = "Threshold" ->
            Len(bp.bar_color_variant.colors) = 4 /\ bp.bar_color_variant.matrix = <<>>
      [] bp.bar_color_variant.kind = "Category" ->
            Len(bp.bar_color_variant.colors) >= 1 /\ bp.bar_color_variant.matrix = <<>>
      [] bp.bar_color_variant.kind = "Indexed" ->
            Len(bp.bar_color_variant.matrix) >= 1 /\ bp.bar_color_variant.colors = <<>>
      [] OTHER -> FALSE

(* What each of the four calls does to the layout: the add_ calls extend a  *)
(* layout of their kind and replace any other by a list of one entry, the   *)
(* set_ calls replace it.                                                   *)
LayoutCalls ==
    /\ AddBarColorsByCategory("Red") =>
          bp'.bar_color_variant =
             IF bp.bar_color_variant.kind = "Category"
             THEN Category(Append(bp.bar_color_variant.colors, "Red"))
             ELSE Category(<<"Red">>)
    /\ \A colors \in LayoutVectors :
          AddBarColorsFromVec(colors) =>
             bp'.bar_color_variant =
                IF bp.bar_color_variant.kind = "Indexed"
                THEN Indexed(Append(bp.bar_color_variant.matrix, colors))
                ELSE Indexed(<<colors>>)
    /\ SetBarColorsByUniform("Teal") => bp'.bar_color_variant = Uniform("Teal")
    /\ SetBarColorsByThreshold("minC", "lowC", "highC", "maxC") =>
          bp'.bar_color_variant = Threshold("minC", "lowC", "highC", "maxC")
    /\ bp'.bar_color_variant # bp.bar_color_variant =>
          \/ AddBarColorsByCategory("Red")
          \/ \E colors \in LayoutVectors : AddBarColorsFromVec(colors)
          \/ SetBarColorsByUniform("Teal")
          \/ SetBarColorsByThreshold("minC", "lowC", "highC", "maxC")

(* The entries of the Category or Indexed layout, which are those added     *)
(* since the layout last became of its kind, are as many as the series.     *)
CountMatches ==
    /\ bp.bar_color_variant.kind = "Category" => Len(CategoryHeld(bp)) = K
    /\ bp.bar_color_variant.kind = "Indexed" => Len(IndexedHeld(bp)) = K

(* Every colour vector of the Indexed layout has the length of its series.  *)
VectorsMatch ==
    bp.bar_color_variant.kind = "Indexed" =>
       \A c \in 1..K : c \in DOMAIN bp.bar_color_variant.matrix =>
          Len(bp.bar_color_variant.matrix[c]) = Len(bp.values[c])

(* to_svg passes its checks of the layout.                                  *)
LayoutCheckPasses == ToSvgResult(bp, 1600, 900).ret.kind = "svg"

(* C30, as stated: the plot holds one layout; the add_ colour calls extend  *)
(* a layout of their kind and otherwise replace it by a list of one entry,  *)
(* the set_ colour calls replace it; and with a series stored the layout    *)
(* check of to_svg passes under Category or Indexed iff the layout has as   *)
(* many entries as there are series.                                        *)
C30_AsStated ==
    /\ [](OneLayout /\ (bp.values # <<>> => (LayoutCheckPasses <=> CountMatches)))
    /\ [][LayoutCalls]_vars

(* C30: the plot holds one layout; the add_ colour calls extend a layout of *)
(* their kind and otherwise replace it by a list of one entry, the set_     *)
(* colour calls replace it; and with a series stored the layout check of    *)
(* to_svg passes under Category iff the layout has as many colours as there *)
(* are series, and under Indexed iff it has as many vectors as there are    *)
(* series and every vector has the length of its series.                    *)
C30_OneLayout ==
    /\ [](OneLayout /\ (bp.values # <<>> => (LayoutCheckPasses <=> (CountMatches /\ VectorsMatch))))
    /\ [][LayoutCalls]_vars

(* Two series of two bins added before and between two colour vectors that  *)
(* replaced a Category layout, and the document drawn from them.            *)
C30_Witness ==
    /\ Returned
    /\ K = 2 /\ N = 2
    /\ bp.bar_color_variant = Indexed(<<<<"Cyan", "Navy">>, <<"Cyan", "Navy">>>>)

-----------------------------------------------------------------------------
(* C9: every stored series has the length of the first one; add_values     *)
(* with a slice of another length panics and stores nothing.                *)
C9_EqualLengths ==
    /\ \A i \in 1..Len(bp.values) : Len(bp.values[i]) = Len(bp.values[1])
    /\ (ret.kind = "panic" /\ ret.msg = "Added values should be same count as old")
          => bp.values # <<>>

(* A series of length 2 is stored and a call with another length panicked. *)
C9_Witness ==
    /\ ret = Panic("Added values should be same count as old")
    /\ Len(bp.values) = 1
    /\ Len(bp.values[1]) = 2

-----------------------------------------------------------------------------
(* C10: when the common series length is 0, to_svg returns no document.    *)
C10_EmptySeriesRejected ==
    (bp.values # <<>> /\ Len(bp.values[1]) = 0) => ~Returned

====
